---- MODULE Spec2Model ----
(***************************************************************************)
(* StudyHub data tooling: the validators and the JSON export of            *)
(* setup_data.py (validate_excel, validate_coverage, export_to_json) and   *)
(* the merge of update_excel.py (update_excel), over a workbook file, a    *)
(* JSON patch file and the exported JSON file.                             *)
(*                                                                         *)
(* A string is a tuple of one-character strings, so that str.lower,        *)
(* str.replace and str.startswith are computed character by character.     *)
(* A cell value is a tagged record: None, a text or a number.              *)
(***************************************************************************)
EXTENDS Integers, Sequences, FiniteSets, TLC

VARIABLES
  excel,    \* the workbook file StudyHub_Complete_Data.xlsx
  json,     \* the patch file content_update_v3.json
  pre,      \* history: the workbook file as it was when the last command started
  last,     \* the outcome of the last command run
  runs,     \* number of commands run so far
  out       \* the JSON file export_to_json writes

vars == <<excel, json, pre, last, runs, out>>

(***************************************************************************)
(* String literals                                                         *)
(***************************************************************************)
s_subject_id == <<"s", "u", "b", "j", "e", "c", "t", "_", "i", "d">>
s_subject_key == <<"s", "u", "b", "j", "e", "c", "t", "_", "k", "e", "y">>
s_name == <<"n", "a", "m", "e">>
s_topic_id == <<"t", "o", "p", "i", "c", "_", "i", "d">>
s_topic_name == <<"t", "o", "p", "i", "c", "_", "n", "a", "m", "e">>
s_section_id == <<"s", "e", "c", "t", "i", "o", "n", "_", "i", "d">>
s_section_title == <<"s", "e", "c", "t", "i", "o", "n", "_", "t", "i", "t", "l", "e">>
s_objective_id == <<"o", "b", "j", "e", "c", "t", "i", "v", "e", "_", "i", "d">>
s_objective_text == <<"o", "b", "j", "e", "c", "t", "i", "v", "e", "_", "t", "e", "x", "t">>
s_term_id == <<"t", "e", "r", "m", "_", "i", "d">>
s_term == <<"t", "e", "r", "m">>
s_definition == <<"d", "e", "f", "i", "n", "i", "t", "i", "o", "n">>
s_content_id == <<"c", "o", "n", "t", "e", "n", "t", "_", "i", "d">>
s_content_type == <<"c", "o", "n", "t", "e", "n", "t", "_", "t", "y", "p", "e">>
s_content_text == <<"c", "o", "n", "t", "e", "n", "t", "_", "t", "e", "x", "t">>
s_formula_id == <<"f", "o", "r", "m", "u", "l", "a", "_", "i", "d">>
s_formula_text == <<"f", "o", "r", "m", "u", "l", "a", "_", "t", "e", "x", "t">>
s_question_id == <<"q", "u", "e", "s", "t", "i", "o", "n", "_", "i", "d">>
s_question_text == <<"q", "u", "e", "s", "t", "i", "o", "n", "_", "t", "e", "x", "t">>
s_option_a == <<"o", "p", "t", "i", "o", "n", "_", "a">>
s_option_b == <<"o", "p", "t", "i", "o", "n", "_", "b">>
s_correct_answer == <<"c", "o", "r", "r", "e", "c", "t", "_", "a", "n", "s", "w", "e", "r">>
s_achievement_id == <<"a", "c", "h", "i", "e", "v", "e", "m", "e", "n", "t", "_", "i", "d">>
s_description == <<"d", "e", "s", "c", "r", "i", "p", "t", "i", "o", "n">>
s_section_icon == <<"s", "e", "c", "t", "i", "o", "n", "_", "i", "c", "o", "n">>
s_order_index == <<"o", "r", "d", "e", "r", "_", "i", "n", "d", "e", "x">>
s_section_type == <<"s", "e", "c", "t", "i", "o", "n", "_", "t", "y", "p", "e">>
s_content_title == <<"c", "o", "n", "t", "e", "n", "t", "_", "t", "i", "t", "l", "e">>
s_image_url == <<"i", "m", "a", "g", "e", "_", "u", "r", "l">>
s_video_url == <<"v", "i", "d", "e", "o", "_", "u", "r", "l">>
s_option_c == <<"o", "p", "t", "i", "o", "n", "_", "c">>
s_option_d == <<"o", "p", "t", "i", "o", "n", "_", "d">>
s_explanation == <<"e", "x", "p", "l", "a", "n", "a", "t", "i", "o", "n">>
s_xp_reward == <<"x", "p", "_", "r", "e", "w", "a", "r", "d">>
s_title == <<"t", "i", "t", "l", "e">>
s_icon == <<"i", "c", "o", "n">>
s_difficulty == <<"d", "i", "f", "f", "i", "c", "u", "l", "t", "y">>
s_hint == <<"h", "i", "n", "t">>
s_BookOpen == <<"B", "o", "o", "k", "O", "p", "e", "n">>
s_Zap == <<"Z", "a", "p">>
s_content == <<"c", "o", "n", "t", "e", "n", "t">>
s_quiz == <<"q", "u", "i", "z">>
s_cont == <<"c", "o", "n", "t">>
s_text == <<"t", "e", "x", "t">>
s_formula == <<"f", "o", "r", "m", "u", "l", "a">>
s_joke == <<"j", "o", "k", "e">>
s_Info == <<"I", "n", "f", "o">>
s_nan == <<"n", "a", "n">>
s_empty == <<>>

CONTENT_TYPES ==
  << <<"i", "n", "t", "r", "o", "d", "u", "c", "t", "i", "o", "n">>,
     <<"f", "o", "r", "m", "u", "l", "a">>,
     <<"c", "o", "n", "c", "e", "p", "t", "_", "h", "e", "l", "p", "e", "r">>,
     <<"w", "a", "r", "n", "i", "n", "g">>,
     <<"r", "e", "a", "l", "_", "w", "o", "r", "l", "d">>,
     <<"t", "e", "x", "t">>,
     <<"v", "i", "d", "e", "o">>,
     <<"i", "m", "a", "g", "e">>,
     <<"f", "l", "o", "w", "c", "h", "a", "r", "t">> >>
VALID_ICONS ==
  << <<"Z", "a", "p">>,
     <<"C", "a", "l", "c", "u", "l", "a", "t", "o", "r">>,
     <<"F", "l", "a", "s", "k", "C", "o", "n", "i", "c", "a", "l">>,
     <<"L", "e", "a", "f">>,
     <<"T", "r", "o", "p", "h", "y">>,
     <<"S", "t", "a", "r">>,
     <<"A", "w", "a", "r", "d">>,
     <<"F", "l", "a", "m", "e">>,
     <<"H", "e", "l", "p", "C", "i", "r", "c", "l", "e">>,
     <<"C", "h", "e", "c", "k", "C", "i", "r", "c", "l", "e", "2">>,
     <<"T", "a", "r", "g", "e", "t">>,
     <<"B", "o", "o", "k", "O", "p", "e", "n">>,
     <<"F", "i", "l", "e", "T", "e", "x", "t">>,
     <<"C", "l", "o", "c", "k">>,
     <<"G", "l", "o", "b", "e">>,
     <<"L", "i", "g", "h", "t", "b", "u", "l", "b">>,
     <<"A", "l", "e", "r", "t", "T", "r", "i", "a", "n", "g", "l", "e">>,
     <<"A", "t", "o", "m">>,
     <<"M", "i", "c", "r", "o", "s", "c", "o", "p", "e">>,
     <<"D", "n", "a">>,
     <<"P", "i">>,
     <<"H", "a", "m", "m", "e", "r">>,
     <<"R", "e", "f", "r", "e", "s", "h", "C", "w">>,
     <<"M", "i", "n", "i", "m", "i", "z", "e", "2">>,
     <<"T", "r", "i", "a", "n", "g", "l", "e">>,
     <<"D", "i", "s", "c">>,
     <<"G", "r", "i", "d">>,
     <<"A", "r", "r", "o", "w", "D", "o", "w", "n">>,
     <<"L", "i", "n", "k">>,
     <<"G", "i", "t", "C", "o", "m", "m", "i", "t">>,
     <<"C", "i", "r", "c", "l", "e">>,
     <<"G", "i", "t", "B", "r", "a", "n", "c", "h">>,
     <<"S", "h", "a", "r", "e", "2">> >>

(***************************************************************************)
(* Cell values and Python's view of them                                   *)
(***************************************************************************)
None == [t |-> "none", v |-> <<>>]
Txt(s) == [t |-> "str", v |-> s]
Num(n) == [t |-> "int", v |-> n]

\* Python truthiness of a cell value: None, '' and 0 are falsy.
Truthy(c) ==
  \/ c.t = "str" /\ c.v # <<>>
  \/ c.t = "int" /\ c.v # 0

UpperChars == <<"A", "B", "C", "D", "E", "F", "G", "H", "I", "J", "K", "L", "M",
                "N", "O", "P", "Q", "R", "S", "T", "U", "V", "W", "X", "Y", "Z">>
LowerChars == <<"a", "b", "c", "d", "e", "f", "g", "h", "i", "j", "k", "l", "m",
                "n", "o", "p", "q", "r", "s", "t", "u", "v", "w", "x", "y", "z">>

LowerTable ==
  [c \in {UpperChars[i] : i \in DOMAIN UpperChars} |->
     LowerChars[CHOOSE i \in DOMAIN UpperChars : UpperChars[i] = c]]

\* str.lower(), one character
LowerChar(c) == IF c \in DOMAIN LowerTable THEN LowerTable[c] ELSE c

\* h.lower().replace(' ', '_')
NormalizeHeader(s) ==
  [i \in 1..Len(s) |-> IF LowerChar(s[i]) = " " THEN "_" ELSE LowerChar(s[i])]

\* s.startswith(p)
StartsWith(s, p) == Len(p) <= Len(s) /\ SubSeq(s, 1, Len(p)) = p

\* x in seq
InSeq(x, seq) == \E i \in DOMAIN seq : seq[i] = x

\* seq.index(x) + 1: the 1-based position of the first occurrence
IndexOf(seq, x) == CHOOSE i \in DOMAIN seq : seq[i] = x /\ \A j \in 1..(i - 1) : seq[j] # x

\* [f(e) for e in seq if keep(e)] helpers
RECURSIVE SelectCells(_)
SelectCells(seq) ==
  IF seq = <<>> THEN <<>>
  ELSE (IF Truthy(Head(seq)) THEN <<Head(seq)>> ELSE <<>>) \o SelectCells(Tail(seq))

\* d.get(k, default)
Get(d, k, default) == IF k \in DOMAIN d THEN d[k] ELSE default

DigitChars == <<"0", "1", "2", "3", "4", "5", "6", "7", "8", "9">>

\* str(n) for n >= 0
RECURSIVE Digits(_)
Digits(n) ==
  IF n < 10 THEN <<DigitChars[n + 1]>>
  ELSE Digits(n \div 10) \o <<DigitChars[(n % 10) + 1]>>

(***************************************************************************)
(* Schema registry                                                         *)
(***************************************************************************)
\* SHEET_SCHEMAS.items() in declaration order
SheetOrder ==
  <<"Subjects", "Topics", "Topic_Sections", "Learning_Objectives", "Key_Terms",
    "Study_Content", "Formulas", "Quiz_Questions", "Achievements">>

SheetNames == {SheetOrder[i] : i \in DOMAIN SheetOrder}

\* SHEET_SCHEMAS[name]['required']
Required(name) ==
  CASE name = "Subjects" -> <<s_subject_id, s_subject_key, s_name>>
    [] name = "Topics" -> <<s_topic_id, s_subject_key, s_topic_name>>
    [] name = "Topic_Sections" -> <<s_section_id, s_topic_id, s_section_title>>
    [] name = "Learning_Objectives" -> <<s_objective_id, s_topic_id, s_objective_text>>
    [] name = "Key_Terms" -> <<s_term_id, s_topic_id, s_term, s_definition>>
    [] name = "Study_Content" -> <<s_content_id, s_section_id, s_content_type, s_content_text>>
    [] name = "Formulas" -> <<s_formula_id, s_topic_id, s_formula_text>>
    [] name = "Quiz_Questions" ->
         <<s_question_id, s_topic_id, s_question_text, s_option_a, s_option_b, s_correct_answer>>
    [] name = "Achievements" -> <<s_achievement_id, s_name, s_description>>

\* the sheets whose icon column validate_excel checks, and that column's name
IconSheets == {"Subjects", "Topic_Sections", "Achievements"}
IconColName(name) == IF name # "Topic_Sections" THEN s_icon ELSE s_section_icon

(***************************************************************************)
(* Workbooks: a sequence of sheets [name, header, rows]; header is row 1,  *)
(* rows are the rows from 2 on, each a sequence of cells.                  *)
(***************************************************************************)
\* A file on disk: missing, present but not parseable, or holding a workbook
\* (for the patch file: a sequence of documents).
Absent == [exists |-> FALSE, readable |-> FALSE, data |-> <<>>]
Unreadable == [exists |-> TRUE, readable |-> FALSE, data |-> <<>>]
File(data) == [exists |-> TRUE, readable |-> TRUE, data |-> data]

\* wb.sheetnames
SheetNamesOf(wb) == {wb[i].name : i \in DOMAIN wb}

\* wb[name]
SheetOf(wb, name) == wb[CHOOSE i \in DOMAIN wb : wb[i].name = name]

\* ws.max_row: the header row and every data row the sheet holds
MaxRow(ws) == 1 + Len(ws.rows)

\* ws.cell(row=r, column=c).value for r >= 2; a cell the sheet does not hold is None
CellValue(ws, r, c) ==
  IF c \in DOMAIN ws.rows[r - 1] THEN ws.rows[r - 1][c] ELSE None

(***************************************************************************)
(* validate_excel                                                          *)
(***************************************************************************)
\* headers = [cell.value for cell in ws[1] if cell.value]
Headers(ws) == SelectCells(ws.header)

\* h.lower() raises AttributeError when a truthy header value is not a string
HeaderRaises(ws) == LET headers == Headers(ws) IN \E i \in DOMAIN headers : headers[i].t # "str"

\* headers_lower = [h.lower().replace(' ', '_') if h else '' for h in headers]
HeadersLower_raw(ws) == LET headers == Headers(ws) IN [i \in DOMAIN headers |-> headers[i].v]
HeadersLower(ws) ==
  LET headers == Headers(ws) IN [i \in DOMAIN headers |-> NormalizeHeader(headers[i].v)]

\* errors.append(f"Missing required sheet: {sheet_name}"); continue
MissingSheet_none(name) == [errors |-> <<>>, warnings |-> <<>>, raised |-> FALSE]
MissingSheet(name) ==
  [errors |-> <<[kind |-> "missing_sheet", sheet |-> name]>>,
   warnings |-> <<>>, raised |-> FALSE]

\* the required columns not in headers_lower, one error each, in schema order
MissingColumns(name, headers_lower) ==
  LET missing == SelectSeq(Required(name), LAMBDA c : ~InSeq(c, headers_lower))
  IN  [i \in DOMAIN missing |-> [kind |-> "missing_column", sheet |-> name, col |-> missing[i]]]

\* if ws.max_row < 2: warnings.append(f"{sheet_name}: No data rows found")
NoDataWarning_strict(name, ws) ==
  IF MaxRow(ws) < 1 THEN <<[kind |-> "no_data", sheet |-> name]>> ELSE <<>>
NoDataWarning(name, ws) ==
  IF MaxRow(ws) < 2 THEN <<[kind |-> "no_data", sheet |-> name]>> ELSE <<>>

\* for row in range(2, ws.max_row + 1)
RowNumbers(ws) == [i \in 1..(MaxRow(ws) - 1) |-> i + 1]

\* the rows whose cell in column col is truthy and not in the list valid
BadRows(ws, col, valid) ==
  SelectSeq(RowNumbers(ws),
            LAMBDA r : /\ Truthy(CellValue(ws, r, col))
                       /\ ~(CellValue(ws, r, col).t = "str" /\ InSeq(CellValue(ws, r, col).v, valid)))

\* the content_type check of the Study_Content sheet
ContentTypeWarnings(name, ws, headers_lower) ==
  IF name = "Study_Content" /\ InSeq(s_content_type, headers_lower)
    THEN LET type_col == IndexOf(headers_lower, s_content_type)
             bad == BadRows(ws, type_col, CONTENT_TYPES)
         IN  [i \in DOMAIN bad |-> [kind |-> "invalid_content_type", sheet |-> name,
                                    row |-> bad[i], value |-> CellValue(ws, bad[i], type_col)]]
    ELSE <<>>

\* the icon check of the Subjects, Topic_Sections and Achievements sheets
IconWarnings(name, ws, headers_lower) ==
  IF name \in IconSheets /\ InSeq(IconColName(name), headers_lower)
    THEN LET icon_col == IndexOf(headers_lower, IconColName(name))
             bad == BadRows(ws, icon_col, VALID_ICONS)
         IN  [i \in DOMAIN bad |-> [kind |-> "unknown_icon", sheet |-> name,
                                    row |-> bad[i], value |-> CellValue(ws, bad[i], icon_col)]]
    ELSE <<>>

\* one iteration of the loop over SHEET_SCHEMAS
ValidateSheet(wb, name) ==
  IF name \notin SheetNamesOf(wb) THEN MissingSheet(name)
  ELSE LET ws == SheetOf(wb, name)
           headers_lower == HeadersLower(ws)
       IN  IF HeaderRaises(ws) THEN [errors |-> <<>>, warnings |-> <<>>, raised |-> TRUE]
           ELSE [errors |-> MissingColumns(name, headers_lower),
                 warnings |-> NoDataWarning(name, ws)
                                \o ContentTypeWarnings(name, ws, headers_lower)
                                \o IconWarnings(name, ws, headers_lower),
                 raised |-> FALSE]

\* the loop over SHEET_SCHEMAS from its i-th entry on, given what was accumulated
RECURSIVE ValidateFrom(_, _, _)
ValidateFrom(wb, i, acc) ==
  IF i > Len(SheetOrder) \/ acc.raised THEN acc
  ELSE LET one == ValidateSheet(wb, SheetOrder[i])
       IN  ValidateFrom(wb, i + 1,
                        [errors |-> acc.errors \o one.errors,
                         warnings |-> acc.warnings \o one.warnings,
                         raised |-> one.raised])

\* return len(errors) == 0
ValidateOk_strict(errors, warnings) == errors = <<>> /\ warnings = <<>>
ValidateOk(errors, warnings) == errors = <<>>

\* validate_excel(file_path): what the call comes to
ValidateResult(file) ==
  IF ~file.readable
    THEN [op |-> "validate", outcome |-> "open_failed", ok |-> FALSE,
          errors |-> <<>>, warnings |-> <<>>]
  ELSE LET acc == ValidateFrom(file.data, 1, [errors |-> <<>>, warnings |-> <<>>, raised |-> FALSE])
       IN  IF acc.raised
             THEN [op |-> "validate", outcome |-> "raised", ok |-> FALSE,
                   errors |-> <<>>, warnings |-> <<>>]
             ELSE [op |-> "validate", outcome |-> "returned",
                   ok |-> ValidateOk(acc.errors, acc.warnings),
                   errors |-> acc.errors, warnings |-> acc.warnings]

MaxRuns == 2    \* commands run in one behaviour

\* the workbook file after a validator is done with it: load_workbook(file_path) reads
\* the file and the validators never save the workbook
Closed_emptied(file) == IF file.readable THEN File(<<>>) ELSE file
Closed(file) == file

ValidateExcel ==
  /\ runs < MaxRuns
  /\ last' = ValidateResult(excel)
  /\ excel' = Closed(excel)
  /\ pre' = excel
  /\ runs' = runs + 1
  /\ UNCHANGED <<json, out>>

(***************************************************************************)
(* validate_coverage                                                       *)
(*                                                                         *)
(* A row read by get_data is a dict: a function from the header keys to    *)
(* the row's cells.                                                        *)
(***************************************************************************)
s_concept_helper == <<"c", "o", "n", "c", "e", "p", "t", "_", "h", "e", "l", "p", "e", "r">>
s_warning == <<"w", "a", "r", "n", "i", "n", "g">>
s_real_world == <<"r", "e", "a", "l", "_", "w", "o", "r", "l", "d">>
s_flowchart == <<"f", "l", "o", "w", "c", "h", "a", "r", "t">>
s_image == <<"i", "m", "a", "g", "e">>

\* valid_types of the handout check
HandoutTypes == <<s_formula, s_concept_helper, s_warning, s_real_world, s_flowchart, s_image>>

\* the thresholds of the coverage rules
MinSubjects == 4
MinTopics == 3
MinQuestions == 3

\* c.value.lower() raises AttributeError when a truthy header cell is not a string
GetDataRaises(ws) == \E i \in DOMAIN ws.header : Truthy(ws.header[i]) /\ ws.header[i].t # "str"

\* headers = [c.value.lower().replace(' ', '_') if c.value else '' for c in ws[1]]
GetDataHeaders(ws) ==
  [i \in DOMAIN ws.header |->
     IF Truthy(ws.header[i]) THEN NormalizeHeader(ws.header[i].v) ELSE s_empty]

\* {k: v for k, v in zip(headers, row)}: the later of two columns with one key wins
RowDict(headers, row) ==
  LET n == IF Len(headers) < Len(row) THEN Len(headers) ELSE Len(row)
  IN  [k \in {headers[i] : i \in 1..n} |->
         row[CHOOSE i \in 1..n : headers[i] = k /\ \A j \in 1..n : headers[j] = k => j <= i]]

\* any(row)
AnyCell(row) == \E i \in DOMAIN row : Truthy(row[i])

\* get_data(sheet_name): [] for an absent sheet, else one dict per row with a truthy cell
GetData(wb, name) ==
  IF name \notin SheetNamesOf(wb) THEN <<>>
  ELSE LET ws == SheetOf(wb, name)
           headers == GetDataHeaders(ws)
           kept == SelectSeq(ws.rows, AnyCell)
       IN  [i \in DOMAIN kept |-> RowDict(headers, kept[i])]

\* the sheets validate_coverage reads, in the order it reads them
CoverageSheets ==
  <<"Subjects", "Topics", "Learning_Objectives", "Key_Terms", "Study_Content", "Quiz_Questions">>

\* [r for r in rows if r.get(key) == value]
Matching_all(rows, key, value) == rows
Matching(rows, key, value) == SelectSeq(rows, LAMBDA r : Get(r, key, None) = value)

\* c.get('section_id', '').startswith(tid) raises when the cell is no string (AttributeError)
\* or tid is no string (TypeError); it is evaluated for every row of content
HandoutRaises(content, tid) ==
  /\ content # <<>>
  /\ \/ tid.t # "str"
     \/ \E i \in DOMAIN content : Get(content[i], s_section_id, Txt(s_empty)).t # "str"

\* t_content of a topic whose check does not raise
HandoutContent_anytype(content, tid) ==
  SelectSeq(content, LAMBDA c : StartsWith(Get(c, s_section_id, Txt(s_empty)).v, tid.v))
HandoutContent(content, tid) ==
  SelectSeq(content,
            LAMBDA c : /\ StartsWith(Get(c, s_section_id, Txt(s_empty)).v, tid.v)
                       /\ Get(c, s_content_type, None).t = "str"
                       /\ InSeq(Get(c, s_content_type, None).v, HandoutTypes))

\* the errors of one topic (step 3 of the loop), in the order they are appended
TopicErrors_quizfirst(topic, objectives, terms, content, questions) ==
  LET tid == Get(topic, s_topic_id, None)
      tname == Get(topic, s_topic_name, None)
      t_quiz == Matching(questions, s_topic_id, tid)
  IN  (IF Len(t_quiz) < MinQuestions
         THEN <<[kind |-> "few_questions", name |-> tname, id |-> tid, count |-> Len(t_quiz)]>>
         ELSE <<>>)
      \o (IF Matching(objectives, s_topic_id, tid) = <<>>
            THEN <<[kind |-> "no_objectives", name |-> tname, id |-> tid, count |-> 0]>> ELSE <<>>)
      \o (IF Matching(terms, s_topic_id, tid) = <<>>
            THEN <<[kind |-> "no_terms", name |-> tname, id |-> tid, count |-> 0]>> ELSE <<>>)
      \o (IF HandoutRaises(content, tid) \/ HandoutContent(content, tid) # <<>> THEN <<>>
          ELSE <<[kind |-> "no_handout", name |-> tname, id |-> tid, count |-> 0]>>)
TopicErrors(topic, objectives, terms, content, questions) ==
  LET tid == Get(topic, s_topic_id, None)
      tname == Get(topic, s_topic_name, None)
      t_quiz == Matching(questions, s_topic_id, tid)
  IN  (IF Matching(objectives, s_topic_id, tid) = <<>>
         THEN <<[kind |-> "no_objectives", name |-> tname, id |-> tid, count |-> 0]>> ELSE <<>>)
      \o (IF Matching(terms, s_topic_id, tid) = <<>>
            THEN <<[kind |-> "no_terms", name |-> tname, id |-> tid, count |-> 0]>> ELSE <<>>)
      \o (IF Len(t_quiz) < MinQuestions
            THEN <<[kind |-> "few_questions", name |-> tname, id |-> tid, count |-> Len(t_quiz)]>>
            ELSE <<>>)
      \o (IF HandoutRaises(content, tid) \/ HandoutContent(content, tid) # <<>> THEN <<>>
          ELSE <<[kind |-> "no_handout", name |-> tname, id |-> tid, count |-> 0]>>)

\* the concatenation of a sequence of sequences
RECURSIVE Flatten(_)
Flatten(seqs) == IF seqs = <<>> THEN <<>> ELSE Head(seqs) \o Flatten(Tail(seqs))

\* sub_topics = [t for t in topics if t.get('subject_key') == sub_key]
SubTopics_all(sub, topics) == topics
SubTopics(sub, topics) == Matching(topics, s_subject_key, Get(sub, s_subject_key, None))

\* the errors of one subject (steps 2 and 3), in the order they are appended
SubjectErrors(sub, topics, objectives, terms, content, questions) ==
  LET sub_topics == SubTopics(sub, topics)
  IN  (IF Len(sub_topics) < MinTopics
         THEN <<[kind |-> "few_topics", name |-> Get(sub, s_name, None), id |-> None,
                 count |-> Len(sub_topics)]>>
         ELSE <<>>)
      \o Flatten([i \in DOMAIN sub_topics |->
                    TopicErrors(sub_topics[i], objectives, terms, content, questions)])

\* if len(subjects) < 4: errors.append(f"Expected at least 4 subjects, found {len(subjects)}")
SubjectCountErrors(subjects) ==
  IF Len(subjects) < MinSubjects
    THEN <<[kind |-> "few_subjects", name |-> None, id |-> None, count |-> Len(subjects)]>>
    ELSE <<>>

\* the list errors when the loops run to their end
CoverageErrors(wb) ==
  LET subjects == GetData(wb, "Subjects")
      topics == GetData(wb, "Topics")
      objectives == GetData(wb, "Learning_Objectives")
      terms == GetData(wb, "Key_Terms")
      content == GetData(wb, "Study_Content")
      questions == GetData(wb, "Quiz_Questions")
  IN  SubjectCountErrors(subjects)
      \o Flatten([i \in DOMAIN subjects |->
                    SubjectErrors(subjects[i], topics, objectives, terms, content, questions)])

\* an exception leaves validate_coverage: from get_data, or from the handout check of a
\* topic the loops reach
CoverageRaises(wb) ==
  \/ \E i \in DOMAIN CoverageSheets :
       CoverageSheets[i] \in SheetNamesOf(wb) /\ GetDataRaises(SheetOf(wb, CoverageSheets[i]))
  \/ LET subjects == GetData(wb, "Subjects")
         topics == GetData(wb, "Topics")
         content == GetData(wb, "Study_Content")
     IN  \E i \in DOMAIN subjects :
           \E j \in DOMAIN SubTopics(subjects[i], topics) :
             HandoutRaises(content, Get(SubTopics(subjects[i], topics)[j], s_topic_id, None))

\* validate_coverage(file_path): what the call comes to
CoverageResult(file) ==
  IF ~file.readable
    THEN [op |-> "coverage", outcome |-> "open_failed", ok |-> FALSE,
          errors |-> <<>>, warnings |-> <<>>]
  ELSE IF CoverageRaises(file.data)
    THEN [op |-> "coverage", outcome |-> "raised", ok |-> FALSE,
          errors |-> <<>>, warnings |-> <<>>]
  ELSE LET errors == CoverageErrors(file.data)
       IN  [op |-> "coverage", outcome |-> "returned", ok |-> errors = <<>>,
            errors |-> errors, warnings |-> <<>>]

ValidateCoverage ==
  /\ runs < MaxRuns
  /\ last' = CoverageResult(excel)
  /\ excel' = Closed(excel)
  /\ pre' = excel
  /\ runs' = runs + 1
  /\ UNCHANGED <<json, out>>

(***************************************************************************)
(* update_excel: patch documents to rows                                   *)
(*                                                                         *)
(* A JSON object is a record holding the keys it carries; a JSON value is  *)
(* a cell value (string, number, null).  A DataFrame is a sheet whose      *)
(* header holds its column names.                                          *)
(***************************************************************************)
\* f"{x}" of a JSON value
Format(c) ==
  CASE c.t = "str" -> c.v
    [] c.t = "int" -> Digits(c.v)
    [] c.t = "none" -> <<"N", "o", "n", "e">>

\* str(x) of a DataFrame cell (an empty cell is NaN)
CellStr(c) ==
  CASE c.t = "str" -> c.v
    [] c.t = "int" -> Digits(c.v)
    [] c.t = "none" -> s_nan

ContentOffset == 200
QuestionOffset == 100

SectionColumns ==
  <<Txt(s_topic_id), Txt(s_section_id), Txt(s_title), Txt(s_icon),
    Txt(s_section_type), Txt(s_order_index)>>

\* sections_rows.append({...})
SectionRow(topic_id, section) ==
  <<topic_id, Get(section, "id", None), Get(section, "title", None),
    Get(section, "icon", Txt(s_BookOpen)), Get(section, "type", Txt(s_content)),
    Get(section, "order", Num(1))>>

ContentColumns ==
  <<Txt(s_content_id), Txt(s_section_id), Txt(s_content_type), Txt(s_content_title),
    Txt(s_content_text), Txt(s_video_url), Txt(s_image_url), Txt(s_description),
    Txt(s_order_index)>>

\* f"cont-{topic_id}-{idx+200}", idx counted from 0
ContentId(topic_id, idx) ==
  Txt(s_cont \o <<"-">> \o Format(topic_id) \o <<"-">> \o Digits(idx + ContentOffset))

\* content_rows.append({...})
ContentRow(topic_id, idx, item) ==
  <<ContentId(topic_id, idx), Get(item, "sectionId", None), Get(item, "type", Txt(s_text)),
    Get(item, "title", Txt(s_Info)), Get(item, "text", Txt(s_empty)),
    Get(item, "videoUrl", Txt(s_empty)), Get(item, "imageUrl", Txt(s_empty)),
    Get(item, "description", Txt(s_empty)), Num(idx + 1)>>

QuestionColumns ==
  <<Txt(s_question_id), Txt(s_topic_id), Txt(s_question_text), Txt(s_option_a),
    Txt(s_option_b), Txt(s_option_c), Txt(s_option_d), Txt(s_correct_answer),
    Txt(s_explanation), Txt(s_difficulty), Txt(s_hint), Txt(s_xp_reward), Txt(s_image_url)>>

\* f"quiz-{topic_id}-{idx+100}", idx counted from 0
QuestionId_shifted(topic_id, idx) ==
  Txt(s_quiz \o <<"-">> \o Format(topic_id) \o <<"-">> \o Digits(idx + ContentOffset))
QuestionId(topic_id, idx) ==
  Txt(s_quiz \o <<"-">> \o Format(topic_id) \o <<"-">> \o Digits(idx + QuestionOffset))

\* q['options'][k-1] where the list holds it (QuestionRaises is the case where it does not)
OptionAt(q, k) == IF "options" \in DOMAIN q /\ k \in DOMAIN q.options THEN q.options[k] ELSE None

\* questions_rows.append({...})
QuestionRow(topic_id, idx, q) ==
  <<QuestionId(topic_id, idx), topic_id, Get(q, "question", None),
    OptionAt(q, 1), OptionAt(q, 2), OptionAt(q, 3), OptionAt(q, 4),
    Get(q, "correctAnswer", None), Get(q, "explanation", None), Get(q, "difficulty", None),
    Get(q, "hint", None), Num(10), Txt(s_empty)>>

\* q['options'][0..3] raises KeyError without the key, IndexError on a list of fewer than 4
QuestionRaises(q) == "options" \notin DOMAIN q \/ Len(q.options) < 4

\* the row-building loop raises on the first such question, before any table is touched
BuildRaises_never(patch) == FALSE
BuildRaises(patch) ==
  \E d \in DOMAIN patch :
    /\ "questions" \in DOMAIN patch[d]
    /\ \E i \in DOMAIN patch[d].questions : QuestionRaises(patch[d].questions[i])

\* the rows one document adds to each list
DocSectionRows(doc) ==
  IF "sections" \in DOMAIN doc
    THEN [i \in DOMAIN doc.sections |-> SectionRow(Get(doc, "topicId", None), doc.sections[i])]
    ELSE <<>>

DocContentRows(doc) ==
  IF "content" \in DOMAIN doc
    THEN [i \in DOMAIN doc.content |->
            ContentRow(Get(doc, "topicId", None), i - 1, doc.content[i])]
    ELSE <<>>

DocQuestionRows(doc) ==
  IF "questions" \in DOMAIN doc
    THEN [i \in DOMAIN doc.questions |->
            QuestionRow(Get(doc, "topicId", None), i - 1, doc.questions[i])]
    ELSE <<>>

\* for subject_data in data: the three lists after the loop
RECURSIVE SectionsRows(_)
SectionsRows(patch) ==
  IF patch = <<>> THEN <<>> ELSE DocSectionRows(Head(patch)) \o SectionsRows(Tail(patch))

RECURSIVE ContentRows(_)
ContentRows(patch) ==
  IF patch = <<>> THEN <<>> ELSE DocContentRows(Head(patch)) \o ContentRows(Tail(patch))

RECURSIVE QuestionsRows(_)
QuestionsRows(patch) ==
  IF patch = <<>> THEN <<>> ELSE DocQuestionRows(Head(patch)) \o QuestionsRows(Tail(patch))

(***************************************************************************)
(* update_excel: folding the rows into the workbook                        *)
(***************************************************************************)
\* the value of a row under column col of a frame with the given header (NaN where absent)
Field(header, row, col) ==
  IF InSeq(Txt(col), header) /\ IndexOf(header, Txt(col)) \in DOMAIN row
    THEN row[IndexOf(header, Txt(col))]
    ELSE None

\* pd.concat([old, new], ignore_index=True): old's columns, then new's other columns;
\* old's rows, then new's rows; NaN where a frame lacks a column
Concat_newfirst(old, new) ==
  LET header == old.header \o SelectSeq(new.header, LAMBDA c : ~InSeq(c, old.header))
      Relaid(frame) ==
        [i \in DOMAIN frame.rows |->
           [j \in DOMAIN header |-> Field(frame.header, frame.rows[i], header[j].v)]]
  IN  [name |-> old.name, header |-> header, rows |-> Relaid(new) \o Relaid(old)]
Concat(old, new) ==
  LET header == old.header \o SelectSeq(new.header, LAMBDA c : ~InSeq(c, old.header))
      Relaid(frame) ==
        [i \in DOMAIN frame.rows |->
           [j \in DOMAIN header |-> Field(frame.header, frame.rows[i], header[j].v)]]
  IN  [name |-> old.name, header |-> header, rows |-> Relaid(old) \o Relaid(new)]

\* pd.DataFrame(rows)
Frame(name, columns, rows) == [name |-> name, header |-> columns, rows |-> rows]

\* set(row['topic_id'] for row in rows), topic_id being the column at position col
TopicsOf(rows, col) == {rows[i][col] : i \in DOMAIN rows}

\* df[~df['topic_id'].isin(target_topics)]
WithoutTopics(df, target_topics) ==
  [df EXCEPT !.rows =
     SelectSeq(df.rows, LAMBDA r : Field(df.header, r, s_topic_id) \notin target_topics)]

\* df[~mask], mask = df['section_id'].apply(
\*   lambda x: any(str(x).startswith(t) for t in target_topics))
WithoutSectionsOf(df, target_topics) ==
  [df EXCEPT !.rows =
     SelectSeq(df.rows,
               LAMBDA r : ~\E t \in target_topics :
                             StartsWith(CellStr(Field(df.header, r, s_section_id)), t.v))]

\* xls[name] = df: an existing key keeps its place, a new key goes last
SetSheet_existing(xls, name, df) ==
  [i \in DOMAIN xls |-> IF xls[i].name = name THEN df ELSE xls[i]]
SetSheet(xls, name, df) ==
  IF name \in SheetNamesOf(xls)
    THEN [i \in DOMAIN xls |-> IF xls[i].name = name THEN df ELSE xls[i]]
    ELSE Append(xls, df)

\* df[col] raises KeyError when the frame has no such column
LacksColumn(xls, name, col) ==
  name \in SheetNamesOf(xls) /\ ~InSeq(Txt(col), SheetOf(xls, name).header)

\* "Update Topic_Sections Sheet"
UpdateSections(xls, sections_rows) ==
  IF sections_rows = <<>> THEN xls
  ELSE LET df_new == Frame("Topic_Sections", SectionColumns, sections_rows)
       IN  IF "Topic_Sections" \in SheetNamesOf(xls)
             THEN SetSheet(xls, "Topic_Sections",
                           Concat(WithoutTopics(SheetOf(xls, "Topic_Sections"),
                                                TopicsOf(sections_rows, 1)),
                                  df_new))
             ELSE SetSheet(xls, "Topic_Sections", df_new)

\* "Update Study_Content Sheet": the target topics are those of sections_rows
UpdateContent(xls, sections_rows, content_rows) ==
  IF content_rows = <<>> THEN xls
  ELSE LET df_new == Frame("Study_Content", ContentColumns, content_rows)
       IN  IF "Study_Content" \in SheetNamesOf(xls)
             THEN SetSheet(xls, "Study_Content",
                           Concat(WithoutSectionsOf(SheetOf(xls, "Study_Content"),
                                                    TopicsOf(sections_rows, 1)),
                                  df_new))
             ELSE SetSheet(xls, "Study_Content", df_new)

\* "Update Quiz_Questions Sheet"
UpdateQuestions(xls, questions_rows) ==
  IF questions_rows = <<>> THEN xls
  ELSE LET df_new == Frame("Quiz_Questions", QuestionColumns, questions_rows)
       IN  IF "Quiz_Questions" \in SheetNamesOf(xls)
             THEN SetSheet(xls, "Quiz_Questions",
                           Concat(WithoutTopics(SheetOf(xls, "Quiz_Questions"),
                                                TopicsOf(questions_rows, 2)),
                                  df_new))
             ELSE SetSheet(xls, "Quiz_Questions", df_new)

\* one of the three updates raises KeyError
UpdateRaises(xls, patch) ==
  \/ SectionsRows(patch) # <<>> /\ LacksColumn(xls, "Topic_Sections", s_topic_id)
  \/ ContentRows(patch) # <<>> /\ LacksColumn(xls, "Study_Content", s_section_id)
  \/ QuestionsRows(patch) # <<>> /\ LacksColumn(xls, "Quiz_Questions", s_topic_id)

\* the three updates in turn
Updated(xls, patch) ==
  LET sections_rows == SectionsRows(patch)
  IN  UpdateQuestions(
        UpdateContent(UpdateSections(xls, sections_rows), sections_rows, ContentRows(patch)),
        QuestionsRows(patch))

MergeOutcome(outcome) ==
  [op |-> "merge", outcome |-> outcome, ok |-> outcome = "done",
   errors |-> <<>>, warnings |-> <<>>]

\* update_excel(): the files and the outcome it leaves.
\*   json.load fails                  -> raises before anything is written
\*   shutil.copy2                     -> a backup copy beside the workbook (not modelled:
\*                                       nothing reads it back)
\*   pd.read_excel fails (except:)    -> xls = {}
\*   row building or an update raises -> the workbook file is not written
\*   pd.ExcelWriter                   -> opens (truncates) the workbook file, writes every
\*                                       sheet of xls; with no sheet at all the save raises
\*                                       and leaves a file that is no workbook
UpdateResult(file, patchfile) ==
  IF ~patchfile.readable
    THEN [excel |-> file, last |-> MergeOutcome("raised")]
  ELSE LET xls == IF file.readable THEN file.data ELSE <<>>
           patch == patchfile.data
           updated == Updated(xls, patch)
       IN  IF BuildRaises(patch) \/ UpdateRaises(xls, patch)
             THEN [excel |-> file, last |-> MergeOutcome("raised")]
           ELSE IF updated = <<>>
             THEN [excel |-> Unreadable, last |-> MergeOutcome("raised")]
           ELSE [excel |-> File(updated), last |-> MergeOutcome("done")]

UpdateExcel ==
  /\ runs < MaxRuns
  /\ LET r == UpdateResult(excel, json)
     IN  /\ excel' = r.excel
         /\ last' = r.last
  /\ pre' = excel
  /\ runs' = runs + 1
  /\ UNCHANGED <<json, out>>

(***************************************************************************)
(* export_to_json                                                          *)
(*                                                                         *)
(* The exported document is a sequence of [name, rows], one per sheet; a   *)
(* row is a dict, a function from its keys to its values.                  *)
(***************************************************************************)
\* ws.max_column: the widest row of the sheet, the header row included
MaxColumn(ws) ==
  LET widths == {Len(ws.header)} \cup {Len(ws.rows[i]) : i \in DOMAIN ws.rows}
  IN  CHOOSE w \in widths : \A v \in widths : v <= w

\* a row as openpyxl hands it out: columns 1 to max_column, None where no cell is stored
WholeRow(ws, row) == [i \in 1..MaxColumn(ws) |-> IF i \in DOMAIN row THEN row[i] ELSE None]

\* cell.value.lower() raises AttributeError when a truthy header cell is not a string
ExportRaises(wb) ==
  \E s \in DOMAIN wb : \E i \in DOMAIN wb[s].header :
    Truthy(wb[s].header[i]) /\ wb[s].header[i].t # "str"

\* cell.value.lower().replace(' ', '_') if cell.value else f'col_{i}', i from enumerate
ExportKey_blank(i, cell) == IF Truthy(cell) THEN NormalizeHeader(cell.v) ELSE s_empty
ExportKey(i, cell) ==
  IF Truthy(cell) THEN NormalizeHeader(cell.v) ELSE <<"c", "o", "l", "_">> \o Digits(i)

\* headers of export_to_json
ExportHeaders(ws) ==
  LET first == WholeRow(ws, ws.header) IN [i \in DOMAIN first |-> ExportKey(i - 1, first[i])]

\* if any(cell is not None for cell in row)
AnyNotNone(row) == \E i \in DOMAIN row : row[i] # None

\* row_dict: headers[i] -> value if value is not None else ''; a later column with the
\* same key overwrites an earlier one
ExportRowDict_raw(headers, row) ==
  [k \in {headers[i] : i \in DOMAIN row} |->
     row[CHOOSE i \in DOMAIN row : headers[i] = k /\ \A j \in DOMAIN row : headers[j] = k => j <= i]]
ExportRowDict(headers, row) ==
  [k \in {headers[i] : i \in DOMAIN row} |->
     LET i == CHOOSE i \in DOMAIN row :
                headers[i] = k /\ \A j \in DOMAIN row : headers[j] = k => j <= i
     IN  IF row[i] # None THEN row[i] ELSE Txt(s_empty)]

\* data[sheet_name] = rows
ExportSheet_newestfirst(ws) ==
  LET headers == ExportHeaders(ws)
      kept == SelectSeq([i \in DOMAIN ws.rows |-> WholeRow(ws, ws.rows[i])], AnyNotNone)
  IN  [name |-> ws.name,
       rows |-> [i \in DOMAIN kept |-> ExportRowDict(headers, kept[Len(kept) + 1 - i])]]
ExportSheet(ws) ==
  LET headers == ExportHeaders(ws)
      kept == SelectSeq([i \in DOMAIN ws.rows |-> WholeRow(ws, ws.rows[i])], AnyNotNone)
  IN  [name |-> ws.name, rows |-> [i \in DOMAIN kept |-> ExportRowDict(headers, kept[i])]]

\* export_to_json(file_path): what the call comes to and the JSON file afterwards;
\* load_workbook is not guarded here, and the file is only opened after the loop
ExportResult(file, outfile) ==
  IF ~file.readable \/ ExportRaises(file.data)
    THEN [out |-> outfile,
          last |-> [op |-> "export", outcome |-> "raised", ok |-> FALSE,
                    errors |-> <<>>, warnings |-> <<>>]]
    ELSE [out |-> File([s \in DOMAIN file.data |-> ExportSheet(file.data[s])]),
          last |-> [op |-> "export", outcome |-> "done", ok |-> TRUE,
                    errors |-> <<>>, warnings |-> <<>>]]

ExportToJson ==
  /\ runs < MaxRuns
  /\ LET r == ExportResult(excel, out)
     IN  /\ out' = r.out
         /\ last' = r.last
  /\ pre' = excel
  /\ runs' = runs + 1
  /\ UNCHANGED <<excel, json>>

\* the elements of a finite set, in some order
RECURSIVE SetToSeq(_)
SetToSeq(S) ==
  IF S = {} THEN <<>> ELSE LET x == CHOOSE x \in S : TRUE IN <<x>> \o SetToSeq(S \ {x})

\* from_json(document) -> dataset, the inverse of the export: one table per entry of the
\* document, its columns the keys of the records, one row per record
FromJson(doc) ==
  [s \in DOMAIN doc |->
     LET keys == IF doc[s].rows = <<>> THEN <<>> ELSE SetToSeq(DOMAIN doc[s].rows[1])
     IN  [name |-> doc[s].name,
          header |-> [i \in DOMAIN keys |-> Txt(keys[i])],
          rows |-> [r \in DOMAIN doc[s].rows |->
                      [i \in DOMAIN keys |-> Get(doc[s].rows[r], keys[i], None)]]]]

(***************************************************************************)
(* Workbooks handed to the validator                                       *)
(***************************************************************************)
MaxRows == 1      \* data rows of the sheet under study
MaxAbsent == 1    \* sheets missing from the workbook besides

\* the header a well-formed sheet carries: its required columns, then its icon column
StdHeader(name) ==
  [i \in DOMAIN Required(name) |-> Txt(Required(name)[i])]
    \o (IF name \in IconSheets THEN <<Txt(IconColName(name))>> ELSE <<>>)

\* the column of a well-formed sheet that validate_excel reads row by row (0: none)
CheckedCol(name) ==
  IF name \in IconSheets THEN Len(StdHeader(name))
  ELSE IF name = "Study_Content" THEN IndexOf(Required(name), s_content_type)
  ELSE 0

\* a data row under StdHeader whose checked cell holds c
StdRow(name, c) ==
  [i \in DOMAIN StdHeader(name) |-> IF i = CheckedCol(name) THEN c ELSE Txt(<<"v">>)]

GoodValue(name) == IF name = "Study_Content" THEN Txt(s_text) ELSE Txt(s_Zap)

CheckedValues(name) ==
  IF CheckedCol(name) = 0 THEN {None} ELSE {GoodValue(name), Txt(s_joke), None}

StdSheet(name) ==
  [name |-> name, header |-> StdHeader(name), rows |-> <<StdRow(name, GoodValue(name))>>]

\* the sheet with up to MaxRows data rows
RowedSheets(name) ==
  {[name |-> name, header |-> StdHeader(name),
    rows |-> [i \in DOMAIN f |-> StdRow(name, f[i])]] :
     f \in UNION {[1..n -> CheckedValues(name)] : n \in 0..MaxRows}}

\* header written in capitals with spaces, e.g. "TOPIC ID"
UpperChar(c) ==
  IF \E i \in DOMAIN LowerChars : LowerChars[i] = c
    THEN UpperChars[CHOOSE i \in DOMAIN LowerChars : LowerChars[i] = c]
    ELSE c
Shout(s) == [i \in 1..Len(s) |-> IF s[i] = "_" THEN " " ELSE UpperChar(s[i])]

\* the ways a sheet's columns are laid out by its author
Layouts == {"plain", "capitals", "first_dropped", "blank_first", "number_last", "no_header"}

Laid(ws, layout) ==
  CASE layout = "plain" -> ws
    [] layout = "capitals" ->
         [ws EXCEPT !.header = [i \in DOMAIN ws.header |-> Txt(Shout(ws.header[i].v))]]
    [] layout = "first_dropped" ->
         [ws EXCEPT !.header = Tail(ws.header),
                    !.rows = [i \in DOMAIN ws.rows |-> Tail(ws.rows[i])]]
    [] layout = "blank_first" ->
         [ws EXCEPT !.header = <<None>> \o ws.header,
                    !.rows = [i \in DOMAIN ws.rows |-> <<None>> \o ws.rows[i]]]
    [] layout = "number_last" ->
         [ws EXCEPT !.header = ws.header \o <<Num(7)>>,
                    !.rows = [i \in DOMAIN ws.rows |-> ws.rows[i] \o <<Num(1)>>]]
    [] layout = "no_header" -> [ws EXCEPT !.header = <<>>]

\* the workbook in schema order from sheet i on: the sheet under study as given,
\* the sheets of gone left out, every other sheet well-formed
RECURSIVE BuildWorkbook(_, _, _)
BuildWorkbook(i, study, gone) ==
  IF i > Len(SheetOrder) THEN <<>>
  ELSE (IF SheetOrder[i] = study.name THEN <<study>>
        ELSE IF SheetOrder[i] \in gone THEN <<>>
        ELSE <<StdSheet(SheetOrder[i])>>) \o BuildWorkbook(i + 1, study, gone)

ValidatorWorkbooks ==
  {File(BuildWorkbook(1, Laid(ws, layout), gone)) :
     ws \in UNION {RowedSheets(n) : n \in SheetNames},
     layout \in Layouts,
     gone \in {g \in SUBSET SheetNames : Cardinality(g) <= MaxAbsent}}

NoResult == [op |-> "none", outcome |-> "none", ok |-> FALSE, errors |-> <<>>, warnings |-> <<>>]

Init ==
  /\ excel \in ValidatorWorkbooks \cup {Unreadable, Absent}
  /\ json = Absent
  /\ pre = excel
  /\ last = NoResult
  /\ runs = 0
  /\ out = Absent

Next == ValidateExcel

Spec == Init /\ [][Next]_vars

(***************************************************************************)
(* Workbooks handed to validate_coverage: subjects a, b, ... with topics   *)
(* a1, a2, ..., each topic covered in full, but for what the case changes  *)
(***************************************************************************)
SubjectKeys == <<"a", "b", "c", "d">>

\* the topic whose coverage the case varies
StudiedTopics == {<<"a", "1">>, <<"b", "2">>}

\* the Study_Content the studied topic has
ContentKinds == {"formula", "image", "text", "none", "blank_section", "number_section"}

\* what else the workbook departs from the full one in
\* ("prefix": the studied topic's subject has one more topic, whose topic_id is the
\* studied one's followed by 0, as phys-t10 follows phys-t1; "pair": the third topic of the
\* studied topic's subject has no objective and topic c1 no term)
Shapes ==
  {"full", "three_subjects", "two_topics", "small", "orphan", "blank_tid", "number_header",
   "prefix", "pair"}

CoverageCases ==
  [shape : Shapes, topic : StudiedTopics, nobj : 0..1, nterm : 0..1,
   nq : 0..MinQuestions, content : ContentKinds]

NumSubjects(case) ==
  IF case.shape \in {"three_subjects", "small"} THEN MinSubjects - 1 ELSE MinSubjects
NumTopics(case, k) ==
  IF case.shape \in {"two_topics", "small"} /\ k = 1 THEN MinTopics - 1 ELSE MinTopics

\* the topic ids of the workbook, subject by subject
TopicIds(case) ==
  Flatten([k \in 1..NumSubjects(case) |->
             [j \in 1..NumTopics(case, k) |-> <<SubjectKeys[k]>> \o Digits(j)]])
  \o (IF case.shape = "prefix" THEN <<case.topic \o <<"0">>>> ELSE <<>>)

\* n times the row
Rep(n, row) == [i \in 1..n |-> row]

\* the rows of a sheet: for each topic in turn, the rows PerTopic gives it
RowsByTopic(case, PerTopic(_)) ==
  Flatten([i \in DOMAIN TopicIds(case) |-> PerTopic(TopicIds(case)[i])])

SubjectRows(case) ==
  [k \in 1..NumSubjects(case) |->
     <<Txt(<<"s", SubjectKeys[k]>>), Txt(<<SubjectKeys[k]>>), Txt(<<"S", SubjectKeys[k]>>),
       Txt(s_Zap)>>]

TopicRows(case) ==
  RowsByTopic(case,
    LAMBDA t : << <<IF case.shape = "blank_tid" /\ t = case.topic THEN None ELSE Txt(t),
                    Txt(<<Head(t)>>), Txt(<<"T">> \o t)>> >>)
  \o (IF case.shape = "orphan"
        THEN << <<Txt(<<"z", "9">>), Txt(<<"z">>), Txt(<<"T", "z", "9">>)>> >>
        ELSE <<>>)

ObjectiveRows(case) ==
  RowsByTopic(case,
    LAMBDA t : Rep(IF t = case.topic THEN case.nobj
                   ELSE IF case.shape = "pair" /\ t = <<Head(case.topic), "3">> THEN 0
                   ELSE 1,
                   <<Txt(<<"o">> \o t), Txt(t), Txt(<<"v">>)>>))

TermRows(case) ==
  RowsByTopic(case,
    LAMBDA t : Rep(IF t = case.topic THEN case.nterm
                   ELSE IF case.shape = "pair" /\ t = <<"c", "1">> THEN 0
                   ELSE 1,
                   <<Txt(<<"k">> \o t), Txt(t), Txt(<<"v">>), Txt(<<"v">>)>>))

QuestionRows(case) ==
  RowsByTopic(case,
    LAMBDA t : Rep(IF t = case.topic THEN case.nq ELSE MinQuestions,
                   <<Txt(<<"q">> \o t), Txt(t), Txt(<<"v">>), Txt(<<"A">>), Txt(<<"B">>),
                     Txt(<<"A">>)>>))

StudyRow(t, kind) ==
  <<Txt(<<"c">> \o t),
    CASE kind = "blank_section" -> None
      [] kind = "number_section" -> Num(5)
      [] OTHER -> Txt(t \o <<"-", "s", "1">>),
    Txt(CASE kind = "image" -> s_image [] kind = "text" -> s_text [] OTHER -> s_formula),
    Txt(<<"v">>)>>

StudyRows(case) ==
  RowsByTopic(case,
    LAMBDA t : IF t # case.topic THEN <<StudyRow(t, "formula")>>
               ELSE IF case.content = "none" THEN <<>>
               ELSE <<StudyRow(t, case.content)>>)

\* one section for each topic, as add_topic_data names them: <topic_id>-s1
SectionRows(case) ==
  RowsByTopic(case,
    LAMBDA t : << [StdRow("Topic_Sections", Txt(s_Zap)) EXCEPT
                     ![IndexOf(Required("Topic_Sections"), s_section_id)]
                        = Txt(t \o <<"-", "s", "1">>),
                     ![IndexOf(Required("Topic_Sections"), s_topic_id)] = Txt(t)] >>)

CoverageRows(case, name) ==
  CASE name = "Subjects" -> SubjectRows(case)
    [] name = "Topics" -> TopicRows(case)
    [] name = "Learning_Objectives" -> ObjectiveRows(case)
    [] name = "Key_Terms" -> TermRows(case)
    [] name = "Study_Content" -> StudyRows(case)
    [] name = "Quiz_Questions" -> QuestionRows(case)
    [] name = "Topic_Sections" -> SectionRows(case)
    [] OTHER -> StdSheet(name).rows

CoverageSheet(case, name) ==
  LET ws == [name |-> name, header |-> StdHeader(name), rows |-> CoverageRows(case, name)]
  IN  IF case.shape = "number_header" /\ name = "Key_Terms" THEN Laid(ws, "number_last") ELSE ws

CoverageWorkbook(case) == [i \in DOMAIN SheetOrder |-> CoverageSheet(case, SheetOrder[i])]

CoverageWorkbooks == {File(CoverageWorkbook(case)) : case \in CoverageCases}

CoverageInit ==
  /\ excel \in CoverageWorkbooks \cup {Unreadable}
  /\ json = Absent
  /\ pre = excel
  /\ last = NoResult
  /\ runs = 0
  /\ out = Absent

CoverageNext == ValidateCoverage \/ ValidateExcel

CoverageSpec == CoverageInit /\ [][CoverageNext]_vars

(***************************************************************************)
(* Workbooks handed to export_to_json                                      *)
(***************************************************************************)
MaxExportRows == 2    \* data rows of the sheet under study

\* the rows an author leaves in a Topics sheet: filled, with a gap, blank, holding only
\* an empty text, holding only a zero and an empty text, and reaching past the last header
ExportRows ==
  { <<Txt(<<"t", "1">>), Txt(<<"a">>), Txt(<<"T">>)>>,
    <<Txt(<<"t", "2">>), None, Txt(<<"T">>)>>,
    <<None, None, None>>,
    <<Txt(s_empty), None, None>>,
    <<Num(0), Txt(s_empty), None>>,
    <<Txt(<<"t", "3">>), Txt(<<"a">>), Txt(<<"T">>), Txt(<<"x">>)>> }

ExportLayouts == Layouts \cup {"blank_middle", "duplicate", "empty_text"}

ExportLaid(ws, layout) ==
  CASE layout = "blank_middle" -> [ws EXCEPT !.header[2] = None]
    [] layout = "duplicate" -> [ws EXCEPT !.header[2] = Txt(Shout(ws.header[1].v))]
    [] layout = "empty_text" -> [ws EXCEPT !.header[1] = Txt(s_empty)]
    [] OTHER -> Laid(ws, layout)

ExportSheets ==
  {ExportLaid([name |-> "Topics", header |-> StdHeader("Topics"), rows |-> rows], layout) :
     rows \in UNION {[1..n -> ExportRows] : n \in 0..MaxExportRows},
     layout \in ExportLayouts}

ExportWorkbooks ==
  {File(<<ws>>) : ws \in ExportSheets}
    \cup {File(<<StdSheet("Subjects"), ws>>) : ws \in ExportSheets}

ExportInit ==
  /\ excel \in ExportWorkbooks \cup {Unreadable}
  /\ json = Absent
  /\ pre = excel
  /\ last = NoResult
  /\ runs = 0
  /\ out = Absent

ExportNext == ExportToJson

ExportSpec == ExportInit /\ [][ExportNext]_vars

(***************************************************************************)
(* Workbooks and patches handed to update_excel                            *)
(***************************************************************************)
MaxOld == 2      \* rows each topic has in each target sheet beforehand
MaxItems == 2    \* items in one array of a patch document

T1 == <<"t", "1">>
T10 == <<"t", "1", "0">>
T2 == <<"t", "2">>

\* the topics with rows in the workbook, and those a patch may name
OldTopics == <<T1, T10, T2>>
PatchTopics == {T1, T2}

\* f"{topic_id}-s{i}", the section ids written by add_topic_data
SectionId(t, i) == t \o <<"-", "s">> \o Digits(i)

\* SHEET_SCHEMAS[name]['columns'] of the three target sheets
TargetColumns(name) ==
  CASE name = "Topic_Sections" ->
         <<Txt(s_section_id), Txt(s_topic_id), Txt(s_section_title), Txt(s_section_icon),
           Txt(s_order_index), Txt(s_section_type)>>
    [] name = "Study_Content" ->
         <<Txt(s_content_id), Txt(s_section_id), Txt(s_content_type), Txt(s_content_title),
           Txt(s_content_text), Txt(s_order_index), Txt(s_image_url), Txt(s_video_url)>>
    [] name = "Quiz_Questions" ->
         <<Txt(s_question_id), Txt(s_topic_id), Txt(s_question_text), Txt(s_option_a),
           Txt(s_option_b), Txt(s_option_c), Txt(s_option_d), Txt(s_correct_answer),
           Txt(s_explanation), Txt(s_xp_reward)>>

TargetSheets == <<"Topic_Sections", "Study_Content", "Quiz_Questions">>

\* the k-th row of topic t in a target sheet, as add_topic_data lays it out
OldRow(name, t, k) ==
  CASE name = "Topic_Sections" ->
         <<Txt(SectionId(t, k)), Txt(t), Txt(<<"S">>), Txt(s_BookOpen), Num(k), Txt(s_content)>>
    [] name = "Study_Content" ->
         <<Txt(s_cont \o <<"-">> \o t \o <<"-">> \o Digits(k)), Txt(SectionId(t, k)),
           Txt(s_text), Txt(<<"T">>), Txt(<<"x">>), Num(k), None, None>>
    [] name = "Quiz_Questions" ->
         <<Txt(s_quiz \o <<"-">> \o t \o <<"-">> \o Digits(k)), Txt(t), Txt(<<"Q">>),
           Txt(<<"A">>), Txt(<<"B">>), Txt(<<"C">>), Txt(<<"D">>), Txt(<<"A">>), None, Num(10)>>

\* a target sheet in which every topic has n rows, the topics interleaved
OldSheet(name, n) ==
  [name |-> name, header |-> TargetColumns(name),
   rows |-> [i \in 1..(n * Len(OldTopics)) |->
               OldRow(name, OldTopics[((i - 1) % Len(OldTopics)) + 1],
                      ((i - 1) \div Len(OldTopics)) + 1)]]

FullWorkbook(n) ==
  <<StdSheet("Subjects"), OldSheet("Topic_Sections", n), OldSheet("Study_Content", n),
    OldSheet("Quiz_Questions", n)>>

\* the workbook without the sheets named
WithoutSheets(wb, names) == SelectSeq(wb, LAMBDA ws : ws.name \notin names)

\* the workbook with one sheet's header in capitals ("TOPIC ID")
WithCapitals(wb, name) ==
  [i \in DOMAIN wb |-> IF wb[i].name = name THEN Laid(wb[i], "capitals") ELSE wb[i]]

MergeWorkbooks ==
  {File(FullWorkbook(n)) : n \in 0..MaxOld}
    \cup {File(WithoutSheets(FullWorkbook(1), {TargetSheets[i]})) : i \in DOMAIN TargetSheets}
    \cup {File(WithoutSheets(FullWorkbook(1), {TargetSheets[i] : i \in DOMAIN TargetSheets}))}
    \cup {File(WithCapitals(FullWorkbook(1), TargetSheets[i])) : i \in DOMAIN TargetSheets}
    \cup {Unreadable, Absent}

\* patch items: the odd ones carry only what has no default, the even ones every field
SectionItem(t, i) ==
  IF i % 2 = 1
    THEN [id |-> Txt(SectionId(t, i)), title |-> Txt(<<"N">>)]
    ELSE [id |-> Txt(SectionId(t, i)), title |-> Txt(<<"N">>), icon |-> Txt(s_Zap),
          type |-> Txt(s_quiz), order |-> Num(i)]

ContentItem(t, i) ==
  IF i % 2 = 1
    THEN [sectionId |-> Txt(SectionId(t, i)), text |-> Txt(<<"x">>)]
    ELSE [sectionId |-> Txt(SectionId(t, i)), type |-> Txt(s_formula), title |-> Txt(<<"F">>),
          text |-> Txt(<<"y">>), videoUrl |-> Txt(<<"v">>), imageUrl |-> Txt(<<"i">>),
          description |-> Txt(<<"d">>)]

\* a question item with n options
QuestionItem(i, n) ==
  LET options == SubSeq(<<Txt(<<"A">>), Txt(<<"B">>), Txt(<<"C">>), Txt(<<"D">>)>>, 1, n)
  IN  IF i % 2 = 1
        THEN [question |-> Txt(<<"Q">> \o Digits(i)), options |-> options,
              correctAnswer |-> Txt(<<"A">>)]
        ELSE [question |-> Txt(<<"Q">> \o Digits(i)), options |-> options,
              correctAnswer |-> Txt(<<"B">>), explanation |-> Txt(<<"e">>),
              difficulty |-> Txt(<<"h">>), hint |-> Txt(<<"k">>)]

\* a key of a document: present only with a non-empty array
Key(k, array) == IF array = <<>> THEN [x \in {} |-> <<>>] ELSE (k :> array)

\* the document of topic t with ns sections, nc content items and nq questions, the
\* last question short of an option when short
Doc(t, ns, nc, nq, short) ==
  ("topicId" :> Txt(t))
    @@ Key("sections", [i \in 1..ns |-> SectionItem(t, i)])
    @@ Key("content", [i \in 1..nc |-> ContentItem(t, i)])
    @@ Key("questions",
           [i \in 1..nq |-> QuestionItem(i, IF short /\ i = nq THEN 3 ELSE 4)])

Docs ==
  {Doc(t, ns, nc, nq, short) :
     t \in PatchTopics, ns \in 0..MaxItems, nc \in 0..MaxItems,
     nq \in 0..MaxItems, short \in BOOLEAN}

\* documents with one item in one array, or one item in each array
SmallDocs ==
  {Doc(t, IF k \in {"sections", "all"} THEN 1 ELSE 0, IF k \in {"content", "all"} THEN 1 ELSE 0,
       IF k \in {"questions", "all"} THEN 1 ELSE 0, FALSE) :
     t \in PatchTopics, k \in {"sections", "content", "questions", "all"}}

\* the empty patch, one document of any shape, or two small documents
Patches ==
  {<<>>} \cup {<<d>> : d \in Docs} \cup {<<d, e>> : d \in SmallDocs, e \in SmallDocs}

MergeInit ==
  /\ excel \in MergeWorkbooks
  /\ json \in {File(p) : p \in Patches} \cup {Unreadable}
  /\ pre = excel
  /\ last = NoResult
  /\ runs = 0
  /\ out = Absent

MergeNext == UpdateExcel

MergeSpec == MergeInit /\ [][MergeNext]_vars

(***************************************************************************)
(* Properties of validate_excel (checked under Spec)                       *)
(***************************************************************************)
\* validate_excel ran on a workbook that loads and returned its result
Validated == last.op = "validate" /\ last.outcome = "returned"

\* the number of entries of seq equal to x
Occurrences(seq, x) == Cardinality({i \in DOMAIN seq : seq[i] = x})

\* C8: for every workbook that can be loaded, the ok the structural validator returns is
\* TRUE if and only if its error list is empty; warnings never change ok.
C8_OkIffNoErrors == Validated => (last.ok <=> last.errors = <<>>)

\* a validation that passed (ok) although it emitted warnings
C8_Witness == Validated /\ last.ok /\ last.warnings # <<>>

\* C9: the structural validator emits exactly one "Missing required sheet" error for each
\* schema table absent from the workbook, none for a table that is present, and no other
\* error or warning about an absent table.
C9_OneErrorPerMissingSheet ==
  Validated =>
    \A n \in SheetNames :
      IF n \in SheetNamesOf(pre.data)
        THEN Occurrences(last.errors, [kind |-> "missing_sheet", sheet |-> n]) = 0
        ELSE /\ Occurrences(last.errors, [kind |-> "missing_sheet", sheet |-> n]) = 1
             /\ \A i \in DOMAIN last.errors :
                  last.errors[i].sheet = n => last.errors[i].kind = "missing_sheet"
             /\ \A i \in DOMAIN last.warnings : last.warnings[i].sheet # n

\* a validation of a workbook lacking a sheet, with a column error about another sheet
C9_Witness ==
  /\ Validated
  /\ \E n \in SheetNames : n \notin SheetNamesOf(pre.data)
  /\ \E i \in DOMAIN last.errors : last.errors[i].kind = "missing_column"

\* C10: for every table present and every required column of its schema, a "Missing
\* required column" error for that table and column is emitted if and only if no header
\* of the table, lowercased and with spaces replaced by underscores, equals the column name.
C10_MissingColumnIff ==
  Validated =>
    \A i \in DOMAIN pre.data :
      \A j \in DOMAIN Required(pre.data[i].name) :
        LET ws == pre.data[i]
            c == Required(ws.name)[j]
        IN  InSeq([kind |-> "missing_column", sheet |-> ws.name, col |-> c], last.errors)
              <=> ~\E h \in DOMAIN ws.header :
                     ws.header[h].t = "str" /\ NormalizeHeader(ws.header[h].v) = c

\* a validation of a sheet whose headers are written otherwise than the schema names and
\* that draws no error
C10_Witness ==
  /\ Validated
  /\ \E i \in DOMAIN pre.data :
       /\ \E h \in DOMAIN pre.data[i].header :
            /\ pre.data[i].header[h].t = "str"
            /\ NormalizeHeader(pre.data[i].header[h].v) # pre.data[i].header[h].v
       /\ \A e \in DOMAIN last.errors : last.errors[e].sheet # pre.data[i].name

\* every sheet of the schema is there and carries each of its required columns
WellFormed(wb) ==
  \A n \in SheetNames :
    /\ n \in SheetNamesOf(wb)
    /\ \A j \in DOMAIN Required(n) :
         \E h \in DOMAIN SheetOf(wb, n).header :
           /\ SheetOf(wb, n).header[h].t = "str"
           /\ NormalizeHeader(SheetOf(wb, n).header[h].v) = Required(n)[j]

\* C11: for every present table with zero data rows the validator emits a warning and no
\* error for the emptiness; a dataset whose only issues are empty tables yields ok = true.
C11_EmptyTablesWarn ==
  Validated =>
    /\ \A i \in DOMAIN pre.data :
         pre.data[i].rows = <<>> =>
           /\ Occurrences(last.warnings, [kind |-> "no_data", sheet |-> pre.data[i].name]) = 1
           /\ \A e \in DOMAIN last.errors :
                last.errors[e].sheet = pre.data[i].name => last.errors[e].kind = "missing_column"
    /\ WellFormed(pre.data) => (last.ok /\ last.errors = <<>>)

\* a validation of a well-formed workbook with an empty sheet: a warning, and ok
C11_Witness ==
  /\ Validated
  /\ WellFormed(pre.data)
  /\ \E i \in DOMAIN pre.data :
       /\ pre.data[i].rows = <<>>
       /\ InSeq([kind |-> "no_data", sheet |-> pre.data[i].name], last.warnings)
  /\ last.ok

\* the position in row 1 of the column named col once normalised (0: no such column)
ColumnOf(ws, col) ==
  LET at == {h \in DOMAIN ws.header :
               ws.header[h].t = "str" /\ NormalizeHeader(ws.header[h].v) = col}
  IN  IF at = {} THEN 0 ELSE CHOOSE h \in at : \A g \in at : h <= g

\* the cell of data row r (2, 3, ...) under the column named col; None without the column
CellUnder(ws, r, col) ==
  IF ColumnOf(ws, col) = 0 THEN None ELSE CellValue(ws, r, ColumnOf(ws, col))

\* a cell that holds something
NonEmpty(c) == c # None /\ c # Txt(<<>>)

\* the warnings of a kind about row r of a sheet
WarningsAbout(kind, name, r) ==
  SelectSeq(last.warnings,
            LAMBDA w : w.kind = kind /\ w.sheet = name /\ w.row = r)

\* C12: for every row of Study_Content the validator emits a warning naming the row and its
\* value if and only if the row's content_type cell is non-empty and not one of the nine
\* content types, for any header layout, blank header cells left of content_type included.
C12_ContentTypeWarningIff ==
  Validated =>
    \A i \in DOMAIN pre.data :
      pre.data[i].name = "Study_Content" =>
        \A r \in 2..MaxRow(pre.data[i]) :
          LET cell == CellUnder(pre.data[i], r, s_content_type)
              about == WarningsAbout("invalid_content_type", "Study_Content", r)
          IN  /\ about # <<>>
                   <=> (NonEmpty(cell) /\ ~(cell.t = "str" /\ InSeq(cell.v, CONTENT_TYPES)))
              /\ \A w \in DOMAIN about : about[w].value = cell

\* C13: for Subjects (icon), Topic_Sections (section_icon) and Achievements (icon) the
\* validator emits an unknown-icon warning for a row if and only if that row's icon cell is
\* non-empty and not a valid icon; an unknown icon is never an error and ok is not affected.
C13_UnknownIconWarningIff ==
  Validated =>
    /\ \A i \in DOMAIN pre.data :
         pre.data[i].name \in IconSheets =>
           \A r \in 2..MaxRow(pre.data[i]) :
             LET cell == CellUnder(pre.data[i], r, IconColName(pre.data[i].name))
                 about == WarningsAbout("unknown_icon", pre.data[i].name, r)
             IN  /\ about # <<>>
                      <=> (NonEmpty(cell) /\ ~(cell.t = "str" /\ InSeq(cell.v, VALID_ICONS)))
                 /\ \A w \in DOMAIN about : about[w].value = cell
    /\ \A e \in DOMAIN last.errors : last.errors[e].kind \in {"missing_sheet", "missing_column"}
    /\ last.ok <=> last.errors = <<>>

(***************************************************************************)
(* Properties of validate_coverage (checked under CoverageSpec)            *)
(***************************************************************************)
\* validate_coverage returned a result for a workbook it could load
Covered == last.op = "coverage" /\ last.outcome = "returned"

\* the data rows of a table of the workbook the command was given
RowsOf(name) ==
  IF name \in SheetNamesOf(pre.data) THEN SheetOf(pre.data, name).rows ELSE <<>>

\* the cell of a row of that table under the column named col
CellOf(name, row, col) ==
  LET c == ColumnOf(SheetOf(pre.data, name), col)
  IN  IF c \in DOMAIN row THEN row[c] ELSE None

\* the number of rows of a table with a given cell under a column
CountOf(name, col, value) ==
  Len(SelectSeq(RowsOf(name), LAMBDA r : CellOf(name, r, col) = value))

\* the topic of a Topics row has a Study_Content row whose section_id starts with its
\* topic_id and whose content_type is one of the six handout types
HasHandout(topic) ==
  \E i \in DOMAIN RowsOf("Study_Content") :
    LET c == RowsOf("Study_Content")[i]
        sid == CellOf("Study_Content", c, s_section_id)
        type == CellOf("Study_Content", c, s_content_type)
        tid == CellOf("Topics", topic, s_topic_id)
    IN  /\ sid.t = "str" /\ tid.t = "str" /\ StartsWith(sid.v, tid.v)
        /\ type.t = "str"
        /\ type.v \in {s_formula, s_concept_helper, s_warning, s_real_world, s_flowchart, s_image}

\* the topic of a Topics row meets the rules on objectives, terms and handout content
CoveredButQuiz(topic) ==
  LET tid == CellOf("Topics", topic, s_topic_id)
  IN  /\ CountOf("Learning_Objectives", s_topic_id, tid) >= 1
      /\ CountOf("Key_Terms", s_topic_id, tid) >= 1
      /\ HasHandout(topic)

\* C14: both validators run to completion and return the accumulated list for every
\* loadable dataset: validate_coverage returns when a Study_Content row has an empty or
\* non-string section_id or a Topics row an empty topic_id, validate_excel when a header
\* cell holds a non-string value.
C14_ValidatorsReturn ==
  (last.op \in {"validate", "coverage"} /\ pre.readable) => last.outcome = "returned"

C16_OkOnlyIfCovered ==
  (Covered /\ last.ok) =>
    /\ Len(RowsOf("Subjects")) >= 4
    /\ \A i \in DOMAIN RowsOf("Subjects") :
         CountOf("Topics", s_subject_key,
                 CellOf("Subjects", RowsOf("Subjects")[i], s_subject_key)) >= 3
    /\ \A i \in DOMAIN RowsOf("Topics") :
         /\ CoveredButQuiz(RowsOf("Topics")[i])
         /\ CountOf("Quiz_Questions", s_topic_id,
                    CellOf("Topics", RowsOf("Topics")[i], s_topic_id)) >= 3

\* C17: for every Subjects row an error naming the subject and its topic count is emitted
\* if and only if fewer than 3 Topics rows have the subject's subject_key; the error
\* "Expected at least 4 subjects" with the actual count is emitted if and only if the
\* Subjects table has fewer than 4 rows.
C17_SubjectErrorsIff ==
  Covered =>
    /\ \A i \in DOMAIN RowsOf("Subjects") :
         LET sub == RowsOf("Subjects")[i]
             n == CountOf("Topics", s_subject_key, CellOf("Subjects", sub, s_subject_key))
         IN  InSeq([kind |-> "few_topics", name |-> CellOf("Subjects", sub, s_name),
                    id |-> None, count |-> n], last.errors)
               <=> n < 3
    /\ InSeq([kind |-> "few_subjects", name |-> None, id |-> None,
              count |-> Len(RowsOf("Subjects"))], last.errors)
         <=> Len(RowsOf("Subjects")) < 4
    /\ \A e \in DOMAIN last.errors :
         last.errors[e].kind = "few_subjects" => last.errors[e].count = Len(RowsOf("Subjects"))

\* a coverage run over three subjects, the first with two topics: both errors
C17_Witness ==
  /\ Covered
  /\ Len(RowsOf("Subjects")) = 3
  /\ \E e \in DOMAIN last.errors : last.errors[e].kind = "few_subjects"
  /\ \E e \in DOMAIN last.errors : last.errors[e].kind = "few_topics" /\ last.errors[e].count = 2

\* 4 subjects of exactly 3 topics each, every topic meeting every rule except the topic
\* of Topics row t, which has fewer than 3 quiz questions
OneShortQuiz(t) ==
  /\ Len(RowsOf("Subjects")) = 4
  /\ Len(RowsOf("Topics")) = 12
  /\ \A i \in DOMAIN RowsOf("Subjects") :
       CountOf("Topics", s_subject_key,
               CellOf("Subjects", RowsOf("Subjects")[i], s_subject_key)) = 3
  /\ \A i \in DOMAIN RowsOf("Topics") :
       /\ CoveredButQuiz(RowsOf("Topics")[i])
       /\ CountOf("Quiz_Questions", s_topic_id,
                  CellOf("Topics", RowsOf("Topics")[i], s_topic_id)) < 3 <=> i = t

\* C18: in a dataset with 4 subjects of exactly 3 topics each where every topic meets all
\* rules except one topic T with k < 3 quiz questions, validate_coverage returns ok = false
\* with exactly one error, for T, carrying the count k; no other topic draws an error.
C18_OneShortQuizOneError ==
  Covered =>
    \A t \in DOMAIN RowsOf("Topics") :
      OneShortQuiz(t) =>
        LET topic == RowsOf("Topics")[t]
            tid == CellOf("Topics", topic, s_topic_id)
        IN  /\ ~last.ok
            /\ last.errors
                 = <<[kind |-> "few_questions", name |-> CellOf("Topics", topic, s_topic_name),
                      id |-> tid, count |-> CountOf("Quiz_Questions", s_topic_id, tid)]>>

\* a coverage run over such a dataset whose topic b2 has 2 quiz questions
C18_Witness ==
  /\ Covered
  /\ \E t \in DOMAIN RowsOf("Topics") :
       /\ OneShortQuiz(t)
       /\ CellOf("Topics", RowsOf("Topics")[t], s_topic_id) = Txt(<<"b", "2">>)
       /\ CountOf("Quiz_Questions", s_topic_id, Txt(<<"b", "2">>)) = 2
  /\ Len(last.errors) = 1

\* the Topics rows validate_coverage examines: those whose subject_key is a subject's
Examined(topic) ==
  \E i \in DOMAIN RowsOf("Subjects") :
    CellOf("Subjects", RowsOf("Subjects")[i], s_subject_key)
      = CellOf("Topics", topic, s_subject_key)

\* C19: for every topic examined, the "missing Handout-compatible content" error is
\* emitted if and only if no Study_Content row has both a section_id that starts with the
\* topic_id and a content_type in {formula, concept_helper, warning, real_world, flowchart,
\* image}; content of the other types never satisfies the rule.
C19_HandoutErrorIff ==
  Covered =>
    \A i \in DOMAIN RowsOf("Topics") :
      LET topic == RowsOf("Topics")[i]
      IN  Examined(topic) =>
            (InSeq([kind |-> "no_handout", name |-> CellOf("Topics", topic, s_topic_name),
                    id |-> CellOf("Topics", topic, s_topic_id), count |-> 0], last.errors)
               <=> ~HasHandout(topic))

\* a coverage run over a topic whose only content is of type text: the error is emitted
C19_Witness ==
  /\ Covered
  /\ \E i \in DOMAIN RowsOf("Topics") :
       LET topic == RowsOf("Topics")[i]
           tid == CellOf("Topics", topic, s_topic_id)
       IN  /\ tid.t = "str"
           /\ \E c \in DOMAIN RowsOf("Study_Content") :
                /\ CellOf("Study_Content", RowsOf("Study_Content")[c], s_section_id)
                     = Txt(tid.v \o <<"-", "s", "1">>)
                /\ CellOf("Study_Content", RowsOf("Study_Content")[c], s_content_type)
                     = Txt(s_text)
           /\ InSeq([kind |-> "no_handout", name |-> CellOf("Topics", topic, s_topic_name),
                     id |-> tid, count |-> 0], last.errors)

\* the four rules on a topic, in the order the claim gives
TopicKinds == <<"no_objectives", "no_terms", "few_questions", "no_handout">>

\* the Topics row an error of a topic is about
TopicRowOf(e) ==
  CHOOSE i \in DOMAIN RowsOf("Topics") :
    /\ CellOf("Topics", RowsOf("Topics")[i], s_topic_id) = e.id
    /\ CellOf("Topics", RowsOf("Topics")[i], s_topic_name) = e.name

\* the Subjects row an error belongs to: the subject it names, or the subject of its topic
SubjectRowOf(e) ==
  CHOOSE i \in DOMAIN RowsOf("Subjects") :
    IF e.kind = "few_topics"
      THEN CellOf("Subjects", RowsOf("Subjects")[i], s_name) = e.name
      ELSE CellOf("Subjects", RowsOf("Subjects")[i], s_subject_key)
             = CellOf("Topics", RowsOf("Topics")[TopicRowOf(e)], s_subject_key)

\* where an error stands in the evaluation order: subject, then topic, then rule
Place(e) ==
  CASE e.kind = "few_subjects" -> <<0, 0, 0>>
    [] e.kind = "few_topics" -> <<SubjectRowOf(e), 0, 0>>
    [] OTHER -> <<SubjectRowOf(e), TopicRowOf(e), IndexOf(TopicKinds, e.kind)>>

Earlier(p, q) ==
  \/ p[1] < q[1]
  \/ p[1] = q[1] /\ p[2] < q[2]
  \/ p[1] = q[1] /\ p[2] = q[2] /\ p[3] < q[3]

\* C27: the error list of validate_coverage is ordered by the evaluation order: the
\* subject-count error (if any) comes first; then for each subject in Subjects table order
\* its topic-count error (if any) precedes the errors of its topics; topics appear in
\* Topics table order and for one topic the errors appear in the order objectives, terms,
\* quiz questions, handout content.
C27_ErrorsInEvaluationOrder ==
  Covered =>
    \A i, j \in DOMAIN last.errors :
      i < j => Earlier(Place(last.errors[i]), Place(last.errors[j]))

\* a coverage run that reports all four rules for one topic, and errors of two more topics
C27_Witness ==
  /\ Covered
  /\ \E i \in DOMAIN last.errors :
       /\ i + 3 \in DOMAIN last.errors
       /\ \A k \in 1..4 :
            /\ last.errors[i + k - 1].kind = TopicKinds[k]
            /\ last.errors[i + k - 1].id = last.errors[i].id
  /\ Cardinality({last.errors[i].id : i \in DOMAIN last.errors}) >= 3

\* the sections of a topic: the section_id of the Topic_Sections rows with its topic_id
SectionsOfTopic(tid) ==
  {CellOf("Topic_Sections", RowsOf("Topic_Sections")[i], s_section_id) :
     i \in {k \in DOMAIN RowsOf("Topic_Sections") :
              CellOf("Topic_Sections", RowsOf("Topic_Sections")[k], s_topic_id) = tid}}

\* C30: a handout-class Study_Content row satisfies the handout requirement only of the
\* topic that owns it: if validate_coverage emits no "missing Handout-compatible content"
\* error for an examined topic T, then some handout-class content row references a section
\* of T (a section_id whose Topic_Sections row has topic_id = T), so content of topic
\* phys-t10 never satisfies the requirement for topic phys-t1.
C30_HandoutOfOwnTopic ==
  Covered =>
    \A i \in DOMAIN RowsOf("Topics") :
      LET topic == RowsOf("Topics")[i]
          tid == CellOf("Topics", topic, s_topic_id)
      IN  (Examined(topic)
             /\ ~InSeq([kind |-> "no_handout", name |-> CellOf("Topics", topic, s_topic_name),
                        id |-> tid, count |-> 0], last.errors))
            => \E c \in DOMAIN RowsOf("Study_Content") :
                 LET type == CellOf("Study_Content", RowsOf("Study_Content")[c], s_content_type)
                 IN  /\ type.t = "str"
                     /\ InSeq(type.v, HandoutTypes)
                     /\ CellOf("Study_Content", RowsOf("Study_Content")[c], s_section_id)
                          \in SectionsOfTopic(tid)

(***************************************************************************)
(* Properties of export_to_json (checked under ExportSpec)                 *)
(***************************************************************************)
\* export_to_json ran to the end and wrote the JSON file
Exported == last.op = "export" /\ last.outcome = "done"

\* the header cell of column i of a sheet (None where row 1 stores no cell)
HeaderCell(ws, i) == IF i \in DOMAIN ws.header THEN ws.header[i] ELSE None

\* the key the header of column i stands for: the header lowercased with spaces replaced
\* by underscores, col_<i - 1> for an empty header
KeyOfColumn(ws, i) ==
  IF HeaderCell(ws, i) \in {None, Txt(s_empty)}
    THEN <<"c", "o", "l", "_">> \o Digits(i - 1)
    ELSE [c \in DOMAIN HeaderCell(ws, i).v |->
            IF HeaderCell(ws, i).v[c] = " " THEN "_" ELSE LowerChar(HeaderCell(ws, i).v[c])]

\* C20: each output key of to_json is the source header lowercased with spaces replaced by
\* underscores, an empty source header is replaced by col_<index>, index being the
\* column's position (counted from 0); so every column of the source table, named or not,
\* has a key in each exported row.
C20_HeaderKeys ==
  Exported =>
    \A s \in DOMAIN pre.data :
      \A r \in DOMAIN out.data[s].rows :
        /\ \A i \in 1..MaxColumn(pre.data[s]) :
             KeyOfColumn(pre.data[s], i) \in DOMAIN out.data[s].rows[r]
        /\ \A k \in DOMAIN out.data[s].rows[r] :
             \E i \in 1..MaxColumn(pre.data[s]) : k = KeyOfColumn(pre.data[s], i)

\* an export of a sheet whose second header is blank: the row carries the value of the
\* unnamed column under col_1, beside topic_id
C20_Witness ==
  /\ Exported
  /\ \E s \in DOMAIN pre.data :
       /\ HeaderCell(pre.data[s], 2) = None
       /\ \E r \in DOMAIN out.data[s].rows :
            /\ <<"c", "o", "l", "_", "1">> \in DOMAIN out.data[s].rows[r]
            /\ out.data[s].rows[r][<<"c", "o", "l", "_", "1">>] = Txt(<<"a">>)
            /\ s_topic_id \in DOMAIN out.data[s].rows[r]

\* C21: to_json includes a source row if and only if at least one of its cells is
\* non-empty; a row whose cells are all empty (absent values or empty strings) is dropped.
\* The rows with a non-empty cell are always kept, so the two sets of rows are the same
\* exactly when they have the same size.
C21_NonEmptyRowsOnly ==
  Exported =>
    \A s \in DOMAIN pre.data :
      Len(out.data[s].rows)
        = Len(SelectSeq(pre.data[s].rows, LAMBDA row : \E i \in DOMAIN row : NonEmpty(row[i])))

\* the source rows of a sheet that the export keeps, each over all the sheet's columns
KeptSource(ws) ==
  SelectSeq([i \in DOMAIN ws.rows |-> WholeRow(ws, ws.rows[i])],
            LAMBDA row : \E i \in DOMAIN row : row[i] # None)

\* column i is the last of the columns that stand for its key
LastOfKey(ws, i) ==
  \A j \in 1..MaxColumn(ws) : KeyOfColumn(ws, j) = KeyOfColumn(ws, i) => j <= i

\* C22: in every exported table no field of any row is null or absent: an empty source
\* cell is serialized as the empty string, and all rows of a table have the same keys.
C22_NoNullField ==
  Exported =>
    \A s \in DOMAIN pre.data :
      LET rows == out.data[s].rows
          source == KeptSource(pre.data[s])
      IN  /\ \A r \in DOMAIN rows : \A k \in DOMAIN rows[r] : rows[r][k] # None
          /\ \A r, q \in DOMAIN rows : DOMAIN rows[r] = DOMAIN rows[q]
          /\ \A r \in DOMAIN rows : \A i \in 1..MaxColumn(pre.data[s]) :
               (r \in DOMAIN source /\ LastOfKey(pre.data[s], i) /\ source[r][i] = None)
                 => rows[r][KeyOfColumn(pre.data[s], i)] = Txt(s_empty)

\* an export of two rows, one with an empty cell between filled ones
C22_Witness ==
  /\ Exported
  /\ \E s \in DOMAIN pre.data :
       /\ Len(out.data[s].rows) = 2
       /\ \E r \in DOMAIN out.data[s].rows :
            /\ s_subject_key \in DOMAIN out.data[s].rows[r]
            /\ s_topic_id \in DOMAIN out.data[s].rows[r]
            /\ out.data[s].rows[r][s_subject_key] = Txt(s_empty)
            /\ out.data[s].rows[r][s_topic_id] = Txt(<<"t", "2">>)

\* C23: the output has one entry per source table, named after it, in source order, and
\* within each table the exported rows are the included source rows in source order,
\* none moved and none repeated.
C23_SourceOrder ==
  Exported =>
    /\ Len(out.data) = Len(pre.data)
    /\ \A s \in DOMAIN pre.data :
         LET rows == out.data[s].rows
             source == KeptSource(pre.data[s])
         IN  /\ out.data[s].name = pre.data[s].name
             /\ Len(rows) = Len(source)
             /\ \A r \in DOMAIN rows : \A i \in 1..MaxColumn(pre.data[s]) :
                  (r \in DOMAIN source /\ LastOfKey(pre.data[s], i) /\ source[r][i] # None)
                    => rows[r][KeyOfColumn(pre.data[s], i)] = source[r][i]

\* an export of two sheets, the second with two different rows
C23_Witness ==
  /\ Exported
  /\ Len(out.data) = 2
  /\ out.data[2].name = "Topics"
  /\ Len(out.data[2].rows) = 2
  /\ out.data[2].rows[1] # out.data[2].rows[2]

\* a cell as a string-typed field: an empty cell is the empty string
AsField(c) == IF c = None THEN Txt(s_empty) ELSE c

\* C24: round trip: from_json(to_json(dataset)) contains, for each table, exactly the
\* non-empty rows of the dataset with their field values, in the original order.
\* Stated for the least the claim asks: the rows are those the export keeps, each with the
\* value of every one of its columns.
C24_RoundTrip ==
  Exported =>
    LET back == FromJson(out.data)
    IN  /\ Len(back) = Len(pre.data)
        /\ \A s \in DOMAIN pre.data :
             LET ws == pre.data[s]
                 source == KeptSource(ws)
             IN  /\ back[s].name = ws.name
                 /\ Len(back[s].rows) = Len(source)
                 /\ \A r \in DOMAIN source : \A i \in 1..MaxColumn(ws) :
                      r \in DOMAIN back[s].rows =>
                        AsField(Field(back[s].header, back[s].rows[r], KeyOfColumn(ws, i)))
                          = AsField(source[r][i])

\* C29: the converter and the coverage validator agree on which rows exist: for every
\* table, a source row is counted by the row loader of validate_coverage if and only if it
\* is included by to_json (a row whose only filled cells hold 0 or an empty string is
\* treated the same way by both). Both keep the rows they keep in source order, and the
\* loader keeps none that to_json drops, so they agree exactly when they keep as many.
C29_LoaderAgreesWithExport ==
  Exported =>
    \A s \in DOMAIN pre.data :
      ~GetDataRaises(pre.data[s])
        => Len(GetData(pre.data, pre.data[s].name)) = Len(out.data[s].rows)

(***************************************************************************)
(* Properties of update_excel (checked under MergeSpec)                    *)
(***************************************************************************)
\* update_excel ran to the end and saved the workbook
Merged == last.op = "merge" /\ last.outcome = "done"

\* the topicIds of the patch
PatchTopicIds == {Get(json.data[d], "topicId", None) : d \in DOMAIN json.data}

\* whether a workbook file holds the sheet, and the sheet's header and rows if it does
Holds(file, name) == file.readable /\ name \in SheetNamesOf(file.data)
HeaderIn(file, name) == IF Holds(file, name) THEN SheetOf(file.data, name).header ELSE <<>>
RowsIn(file, name) == IF Holds(file, name) THEN SheetOf(file.data, name).rows ELSE <<>>

\* the rows the patch translates to for a target sheet, in patch order, and their columns
PatchRows(name) ==
  CASE name = "Topic_Sections" -> SectionsRows(json.data)
    [] name = "Study_Content" -> ContentRows(json.data)
    [] name = "Quiz_Questions" -> QuestionsRows(json.data)

PatchColumns(name) ==
  CASE name = "Topic_Sections" -> SectionColumns
    [] name = "Study_Content" -> ContentColumns
    [] name = "Quiz_Questions" -> QuestionColumns

\* the rows of a target sheet that precede the rows appended by the last merge, cut to
\* the columns the sheet had before
KeptRows(name) ==
  LET rows == RowsIn(excel, name)
      kept == Len(rows) - Len(PatchRows(name))
      width == Len(HeaderIn(pre, name))
  IN  [i \in 1..kept |-> SubSeq(rows[i], 1, width)]

\* the topic a row belongs to: its topic_id; for Study_Content the topic of its section
\* (section ids are <topic_id>-s<n>)
OfTopic(name, row, t) ==
  IF name = "Study_Content"
    THEN StartsWith(CellStr(Field(HeaderIn(pre, name), row, s_section_id)), t.v \o <<"-", "s">>)
    ELSE Field(HeaderIn(pre, name), row, s_topic_id) = t

\* the association by which rows are evicted: topic_id, or section_id starting with it
Associated(name, row, t) ==
  IF name = "Study_Content"
    THEN StartsWith(CellStr(Field(HeaderIn(pre, name), row, s_section_id)), t.v)
    ELSE Field(HeaderIn(pre, name), row, s_topic_id) = t

\* C1: merge is idempotent: applying the same patch a second time leaves Topic_Sections,
\* Study_Content and Quiz_Questions as the first application left them (same rows, same order).
C1_Idempotent ==
  (Merged /\ runs >= 2) =>
    \A n \in DOMAIN TargetSheets :
      /\ Holds(excel, TargetSheets[n]) <=> Holds(pre, TargetSheets[n])
      /\ HeaderIn(excel, TargetSheets[n]) = HeaderIn(pre, TargetSheets[n])
      /\ RowsIn(excel, TargetSheets[n]) = RowsIn(pre, TargetSheets[n])

\* the array of a patch document that feeds a target sheet
ArrayOf(name) ==
  CASE name = "Topic_Sections" -> "sections"
    [] name = "Study_Content" -> "content"
    [] name = "Quiz_Questions" -> "questions"

\* the topicIds of the documents that carry items for a target sheet
TopicIdsFor(name) ==
  {Get(json.data[d], "topicId", None) :
     d \in {e \in DOMAIN json.data : ArrayOf(name) \in DOMAIN json.data[e]}}

\* C2: after merge, in each of the three target tables no pre-existing row associated with
\* a topicId of the patch remains (topic_id for Sections and Questions, section_id starting
\* with the topicId for Content); the evicted set is the patch's topicIds for all three.
\* Stated here for the least the claim asks of a table: the topicIds of the documents that
\* carry items for that table (a table the patch has no item for is left alone).
C2_PatchTopicsEvicted ==
  Merged =>
    \A n \in DOMAIN TargetSheets :
      \A i \in DOMAIN KeptRows(TargetSheets[n]) :
        \A t \in TopicIdsFor(TargetSheets[n]) :
          ~Associated(TargetSheets[n], KeptRows(TargetSheets[n])[i], t)

\* C3: when the patch holds one document for topic T and it has n >= 1 questions, after
\* merge Quiz_Questions holds exactly n rows with topic_id = T, whatever it held before,
\* with question_id quiz-T-100, quiz-T-101, ... in patch order.
C3_QuestionsReplaced ==
  Merged =>
    \A d \in DOMAIN json.data :
      LET doc == json.data[d]
          t == Get(doc, "topicId", None)
          header == HeaderIn(excel, "Quiz_Questions")
          of_t == SelectSeq(RowsIn(excel, "Quiz_Questions"),
                            LAMBDA r : Field(header, r, s_topic_id) = t)
      IN  ( /\ \A e \in DOMAIN json.data : Get(json.data[e], "topicId", None) = t => e = d
            /\ "questions" \in DOMAIN doc
            /\ Len(doc.questions) >= 1 )
          => /\ Len(of_t) = Len(doc.questions)
             /\ \A i \in DOMAIN of_t :
                  Field(header, of_t[i], s_question_id)
                    = Txt(<<"q", "u", "i", "z", "-">> \o t.v \o <<"-">> \o Digits(100 + i - 1))

\* a merge of a patch with one question for a topic that had two questions before
C3_Witness ==
  /\ Merged
  /\ \E d \in DOMAIN json.data :
       /\ Len(json.data) = 1
       /\ "questions" \in DOMAIN json.data[d]
       /\ Len(json.data[d].questions) = 1
       /\ Len(SelectSeq(RowsIn(pre, "Quiz_Questions"),
                        LAMBDA r : Field(HeaderIn(pre, "Quiz_Questions"), r, s_topic_id)
                                     = json.data[d].topicId)) = 2

\* C4: in each target table after merge, the translated patch rows come after all the
\* retained pre-existing rows, in patch order (documents in order, items in array order).
C4_PatchRowsAppended ==
  Merged =>
    \A n \in DOMAIN TargetSheets :
      LET name == TargetSheets[n]
          new == PatchRows(name)
          rows == RowsIn(excel, name)
          kept == Len(rows) - Len(new)
      IN  new # <<>> =>
            /\ kept >= 0
            /\ \A i \in DOMAIN new : \A c \in DOMAIN PatchColumns(name) :
                 Field(HeaderIn(excel, name), rows[kept + i], PatchColumns(name)[c].v) = new[i][c]
            /\ KeptRows(name)
                 = SelectSeq(RowsIn(pre, name),
                             LAMBDA r : \E i \in DOMAIN KeptRows(name) : KeptRows(name)[i] = r)

\* a merge of two documents' questions into a sheet that keeps rows of other topics
C4_Witness ==
  /\ Merged
  /\ Len(json.data) = 2
  /\ Len(QuestionsRows(json.data)) = 2
  /\ Len(RowsIn(excel, "Quiz_Questions")) > 2
  /\ KeptRows("Quiz_Questions") # <<>>

\* C5: merge only replaces rows of the topics named in the patch: every pre-existing row of
\* the three target tables that belongs to a topic whose id is no topicId of the patch is
\* still there with the same values and in the same relative order (a Study_Content row of
\* a section of t10 survives a patch naming only t1), and every other table is unchanged.
C5_OtherTopicsKept ==
  (Merged /\ pre.readable) =>
    /\ \A i \in DOMAIN pre.data :
         (\A n \in DOMAIN TargetSheets : pre.data[i].name # TargetSheets[n])
           => /\ Holds(excel, pre.data[i].name)
              /\ SheetOf(excel.data, pre.data[i].name) = pre.data[i]
    /\ \A n \in DOMAIN TargetSheets :
         LET name == TargetSheets[n]
             Other(r) == \A t \in PatchTopicIds : ~OfTopic(name, r, t)
             width == Len(HeaderIn(pre, name))
             now == [i \in DOMAIN RowsIn(excel, name) |-> SubSeq(RowsIn(excel, name)[i], 1, width)]
         IN  Holds(pre, name) => SelectSeq(now, Other) = SelectSeq(RowsIn(pre, name), Other)

\* the patch holds a question whose options list has fewer than 4 elements
HasShortOptions ==
  \E d \in DOMAIN json.data :
    /\ "questions" \in DOMAIN json.data[d]
    /\ \E i \in DOMAIN json.data[d].questions : Len(json.data[d].questions[i].options) < 4

\* C6: a patch with a question whose options list has fewer than 4 elements makes the
\* merge fail before any table is modified or saved: the stored workbook is as it was.
C6_ShortOptionsFail ==
  (last.op = "merge" /\ json.readable /\ HasShortOptions) =>
    (last.outcome = "raised" /\ excel = pre)

\* a failed merge of such a patch that also carries sections for a workbook that loads
C6_Witness ==
  /\ last.op = "merge"
  /\ json.readable
  /\ HasShortOptions
  /\ pre.readable
  /\ SectionsRows(json.data) # <<>>

\* C7: when the source document cannot be opened or parsed the operation aborts with a
\* failure and produces no output; merge does not write or overwrite the workbook.
\* Stated for a workbook that cannot be loaded when the merge starts: the merge ends in a
\* failure and leaves no loadable workbook behind.
C7_NoOutputWithoutSource ==
  (last.op = "merge" /\ ~pre.readable) =>
    (last.outcome = "raised" /\ ~excel.readable)

\* every row holds a value under each required column of the sheet's schema
RequiredFilled(name, header, rows) ==
  \A i \in DOMAIN rows : \A c \in DOMAIN Required(name) :
    Field(header, rows[i], Required(name)[c]) # None

\* C25: the dataset merge produces has the shape of its input: the rows inserted from the
\* patch carry the columns of the table's schema, so that if every pre-existing row of a
\* target table had values for the table's required columns (section_id, topic_id and
\* section_title for Topic_Sections), every row of the table after merge does too.
C25_RequiredColumnsKept ==
  Merged =>
    \A n \in DOMAIN TargetSheets :
      LET name == TargetSheets[n]
      IN  (Holds(pre, name) /\ RequiredFilled(name, HeaderIn(pre, name), RowsIn(pre, name)))
            => RequiredFilled(name, HeaderIn(excel, name), RowsIn(excel, name))

\* the values under a column of a sheet of a workbook file are all different
UniqueIn(file, name, col) ==
  \A i, j \in DOMAIN RowsIn(file, name) :
    Field(HeaderIn(file, name), RowsIn(file, name)[i], col)
      = Field(HeaderIn(file, name), RowsIn(file, name)[j], col) => i = j

\* C26: synthesized identifiers do not collide: if content_id values are unique in
\* Study_Content and question_id values are unique in Quiz_Questions before merge, they are
\* unique after merge, for every patch, two documents with one topicId and content
\* inserted next to rows of an earlier merge included.
C26_IdsStayUnique ==
  Merged =>
    /\ UniqueIn(pre, "Study_Content", s_content_id) => UniqueIn(excel, "Study_Content", s_content_id)
    /\ UniqueIn(pre, "Quiz_Questions", s_question_id)
         => UniqueIn(excel, "Quiz_Questions", s_question_id)

\* C28: when a target table is absent from the dataset and the patch yields at least one
\* row for it, merge creates the table holding exactly the translated patch rows in patch
\* order; when the patch yields no row for a target table, the table is left exactly as
\* it was, neither evicted from nor created.
C28_CreatedOrUntouched ==
  (Merged /\ pre.readable) =>
    \A n \in DOMAIN TargetSheets :
      LET name == TargetSheets[n]
      IN  /\ (~Holds(pre, name) /\ PatchRows(name) # <<>>) =>
               /\ Holds(excel, name)
               /\ HeaderIn(excel, name) = PatchColumns(name)
               /\ RowsIn(excel, name) = PatchRows(name)
          /\ PatchRows(name) = <<>> =>
               /\ Holds(excel, name) <=> Holds(pre, name)
               /\ HeaderIn(excel, name) = HeaderIn(pre, name)
               /\ RowsIn(excel, name) = RowsIn(pre, name)

\* a merge of sections and questions into a workbook that lacks Quiz_Questions and holds
\* Study_Content: the one is created, the other left alone
C28_Witness ==
  /\ Merged
  /\ pre.readable
  /\ ~Holds(pre, "Quiz_Questions")
  /\ Len(PatchRows("Quiz_Questions")) = 2
  /\ RowsIn(excel, "Quiz_Questions") = PatchRows("Quiz_Questions")
  /\ PatchRows("Study_Content") = <<>>
  /\ PatchRows("Topic_Sections") # <<>>
  /\ RowsIn(pre, "Study_Content") # <<>>
====
